---- MODULE Spec2Model ----
(***************************************************************************)
(* Model of the EPL analytics ingestion pipeline:                          *)
(*   - the load-completion gate   (.github/scripts/gate_until_loaded.py)   *)
(*   - the workflow dispatcher    (epl-dbt-dispatcher/function_app.py)     *)
(*   - the spreadsheet splitter   (epl-function/function_app.py)           *)
(* The three programs share nothing; each has its own variables (g_, d_,   *)
(* s_) and its own specification (SpecGate, SpecDispatch, SpecSplit).      *)
(* The splitter has more: SpecRerun delivers the event of one source a     *)
(* second time, SpecWait runs its archive wait under fair scheduling,      *)
(* SpecFn calls its helper functions on their own (f_), SpecPair runs two  *)
(* invocations for two sources side by side (t_) and SpecTwin runs two     *)
(* invocations for one and the same source.                                *)
(* Strings are sequences of one-character strings, so that upper(),        *)
(* lower(), startswith(), endswith() and split() are computed character    *)
(* by character as Python computes them.                                   *)
(***************************************************************************)
EXTENDS Integers, Sequences, FiniteSets, TLC

VARIABLES
    \* ---- load-completion gate ----
    g_pc,        \* "start" | "loop" | "sleep" | "done"
    g_timeout,   \* args.timeout
    g_elapsed,   \* time.time() - start, in seconds
    g_conn,      \* "none" | "open" | "closed"
    g_opens,     \* number of snowflake.connector.connect() calls that returned
    g_closes,    \* number of conn.close() calls
    g_queries,   \* number of COPY_HISTORY queries whose row was fetched
    g_hist,      \* the rows those queries returned, in order
    g_poll_at,   \* g_elapsed at the start of each of those polls
    g_status,    \* local `status`
    g_last_row,  \* local `last_row`
    g_exit,      \* -1 running, 0 / 2 / 3 return value of main, 1 unhandled exception
    g_reported,  \* the row printed by the timeout message
    \* ---- workflow dispatcher ----
    d_pc,        \* "start" | "validated" | "parsed" | "filtered" | "posting" | "done"
    d_cfg,       \* get_config(): GITHUB_OWNER, GITHUB_REPO, GITHUB_PAT, PATH_BEGINS, PATH_ENDS
    d_event,     \* the Event Grid notification handed to the function
    d_subject,   \* local `subject`
    d_blob_url,  \* local `blob_url`
    d_posts,     \* the requests handed to requests.post, in order
    d_result,    \* what requests.post did: a response with its status, a timeout, another error
    d_outcome,   \* "running" | "returned" | "raised"
    d_error,     \* which raise ended the invocation
    \* ---- spreadsheet splitter ----
    s_pc,        \* "start" | "connect" | "read" | "export" | "archive" | "wait" | "delete" | "done"
    s_path,      \* inputblob.name
    s_workbook,  \* the sheet names of the uploaded workbook, in order
    s_env,       \* which storage setting exists: "serviceUri" | "connection_string" | "none"
    s_now,       \* datetime.utcnow() as << year, month >>
    s_loc,       \* locals: blob_name, filename, stem, ym, file_type, target
    s_read,      \* the workbook has been read
    s_sheets,    \* local `sheet_names` after the selection
    s_idx,       \* number of sheets the export loop has uploaded
    s_store,     \* output objects in the container: pairs << name, sheet >>
    s_uploads,   \* names passed to upload_blob, in order
    s_archive,   \* the archive destination: its name and copy status
    s_copies,    \* number of start_copy_from_url calls
    s_clock,     \* seconds since _wait_for_copy_success was entered
    s_seen,      \* copy status the latest get_blob_properties call observed
    s_wait,      \* result of _wait_for_copy_success: "none" | "true" | "false"
    s_source,    \* the source object: "present" | "deleted"
    s_deletes,   \* number of delete_blob calls
    s_skip,      \* which early return ended the invocation
    s_failed_at, \* the step that raised
    s_outcome,   \* "running" | "returned" | "raised"
    s_accepted,  \* ACCEPTED_SHEETS of the deployment
    s_run,       \* which delivery of the event this invocation serves (1 = the first)
    s_snap,      \* what the previous delivery left: the outputs, whether its export finished
    \* ---- the splitter's helper functions, called on their own ----
    f_pc,        \* "ready" | "done"
    f_kind,      \* the helper called: "classify" | "extract" | "safe"
    f_in,        \* its string argument
    f_now,       \* datetime.utcnow() as << year, month >>
    f_out,       \* its return value
    \* ---- two invocations of the splitter on one container ----
    t_inv,       \* per invocation: pc, path, workbook, locals, sheet_names, sheets done, outcome
    t_writes,    \* the uploads so far: pairs << output name, invocation >>
    t_copies,    \* the archive copies started so far: pairs << archive name, invocation >>
    t_gone,      \* the source paths deleted so far
    t_arch       \* the archive objects: pairs << archive name, copy status >>

gate_vars == << g_pc, g_timeout, g_elapsed, g_conn, g_opens, g_closes, g_queries,
                g_hist, g_poll_at, g_status, g_last_row, g_exit, g_reported >>

disp_vars == << d_pc, d_cfg, d_event, d_subject, d_blob_url, d_posts, d_result,
                d_outcome, d_error >>

split_vars == << s_pc, s_path, s_workbook, s_env, s_now, s_loc, s_read, s_sheets, s_idx,
                 s_store, s_uploads, s_archive, s_copies, s_clock, s_seen,
                 s_wait, s_source, s_deletes, s_skip, s_failed_at, s_outcome,
                 s_accepted, s_run, s_snap >>

fn_vars == << f_pc, f_kind, f_in, f_now, f_out >>

pair_vars == << t_inv, t_writes, t_copies, t_gone, t_arch >>

vars == << gate_vars, disp_vars, split_vars, fn_vars, pair_vars >>

\* what the gate leaves alone
not_gate_vars == << disp_vars, split_vars, fn_vars, pair_vars >>

\* what the dispatcher leaves alone
not_disp_vars == << gate_vars, split_vars, fn_vars, pair_vars >>

\* what the splitter leaves alone
not_split_vars == << gate_vars, disp_vars, fn_vars, pair_vars >>

\* what a helper called on its own leaves alone
not_fn_vars == << gate_vars, disp_vars, split_vars, pair_vars >>

\* what two invocations side by side leave alone
not_pair_vars == << gate_vars, disp_vars, split_vars, fn_vars >>

(***************************************************************************)
(* Strings                                                                 *)
(***************************************************************************)
EmptyStr == << >>

\* The characters of the model: the printable characters of Latin-1
\* (U+0020..U+007E, U+00A0..U+00FF), the white space among its control
\* characters (U+0009..U+000D, U+001C..U+001F, U+0085, written as they are
\* where the language has no escape for them), and the three characters
\* outside Latin-1 that upper() maps these to or lower() maps those back to:
\* capital mu (U+039C), small mu (U+03BC) and capital y with diaeresis.  Two
\* of them a string of this language cannot hold: the grave accent is written
\* "U+0060" and capital y with diaeresis "U+0178".
\* The tables below are those of Python's str methods on these characters;
\* a character outside the alphabet is outside their domain.
Alphabet ==
    {
      " ", "!", "\"", "#", "$", "%", "&", "'", "(", ")", "*", "+", ",", "-",
      ".", "/", "0", "1", "2", "3", "4", "5", "6", "7", "8", "9", ":", ";",
      "<", "=", ">", "?", "@", "A", "B", "C", "D", "E", "F", "G", "H", "I",
      "J", "K", "L", "M", "N", "O", "P", "Q", "R", "S", "T", "U", "V", "W",
      "X", "Y", "Z", "[", "\\", "]", "^", "_", "U+0060", "a", "b", "c", "d",
      "e", "f", "g", "h", "i", "j", "k", "l", "m", "n", "o", "p", "q", "r",
      "s", "t", "u", "v", "w", "x", "y", "z", "{", "|", "}", "~", " ", "¡",
      "¢", "£", "¤", "¥", "¦", "§", "¨", "©", "ª", "«", "¬", "­", "®", "¯",
      "°", "±", "²", "³", "´", "µ", "¶", "·", "¸", "¹", "º", "»", "¼", "½",
      "¾", "¿", "À", "Á", "Â", "Ã", "Ä", "Å", "Æ", "Ç", "È", "É", "Ê", "Ë",
      "Ì", "Í", "Î", "Ï", "Ð", "Ñ", "Ò", "Ó", "Ô", "Õ", "Ö", "×", "Ø", "Ù",
      "Ú", "Û", "Ü", "Ý", "Þ", "ß", "à", "á", "â", "ã", "ä", "å", "æ", "ç",
      "è", "é", "ê", "ë", "ì", "í", "î", "ï", "ð", "ñ", "ò", "ó", "ô", "õ",
      "ö", "÷", "ø", "ù", "ú", "û", "ü", "ý", "þ", "ÿ", "\t", "\n", "", "\f",
      "\r", "", "", "", "", "", "Μ", "U+0178", "μ" }

\* c.upper() for a character c, a string: "\u00DF".upper() has two characters
UpperOf ==
    (   "a" :> << "A" >> @@ "b" :> << "B" >> @@ "c" :> << "C" >> @@
        "d" :> << "D" >> @@ "e" :> << "E" >> @@ "f" :> << "F" >> @@
        "g" :> << "G" >> @@ "h" :> << "H" >> @@ "i" :> << "I" >> @@
        "j" :> << "J" >> @@ "k" :> << "K" >> @@ "l" :> << "L" >> @@
        "m" :> << "M" >> @@ "n" :> << "N" >> @@ "o" :> << "O" >> @@
        "p" :> << "P" >> @@ "q" :> << "Q" >> @@ "r" :> << "R" >> @@
        "s" :> << "S" >> @@ "t" :> << "T" >> @@ "u" :> << "U" >> @@
        "v" :> << "V" >> @@ "w" :> << "W" >> @@ "x" :> << "X" >> @@
        "y" :> << "Y" >> @@ "z" :> << "Z" >> @@ "µ" :> << "Μ" >> @@
        "ß" :> << "S", "S" >> @@ "à" :> << "À" >> @@ "á" :> << "Á" >> @@
        "â" :> << "Â" >> @@ "ã" :> << "Ã" >> @@ "ä" :> << "Ä" >> @@
        "å" :> << "Å" >> @@ "æ" :> << "Æ" >> @@ "ç" :> << "Ç" >> @@
        "è" :> << "È" >> @@ "é" :> << "É" >> @@ "ê" :> << "Ê" >> @@
        "ë" :> << "Ë" >> @@ "ì" :> << "Ì" >> @@ "í" :> << "Í" >> @@
        "î" :> << "Î" >> @@ "ï" :> << "Ï" >> @@ "ð" :> << "Ð" >> @@
        "ñ" :> << "Ñ" >> @@ "ò" :> << "Ò" >> @@ "ó" :> << "Ó" >> @@
        "ô" :> << "Ô" >> @@ "õ" :> << "Õ" >> @@ "ö" :> << "Ö" >> @@
        "ø" :> << "Ø" >> @@ "ù" :> << "Ù" >> @@ "ú" :> << "Ú" >> @@
        "û" :> << "Û" >> @@ "ü" :> << "Ü" >> @@ "ý" :> << "Ý" >> @@
        "þ" :> << "Þ" >> @@ "ÿ" :> << "U+0178" >> @@ "μ" :> << "Μ" >> )
    @@ [c \in Alphabet |-> << c >>]

\* c.lower() for a character c, in this alphabet always one character
LowerOf ==
    (   "A" :> "a" @@ "B" :> "b" @@ "C" :> "c" @@ "D" :> "d" @@ "E" :> "e" @@
        "F" :> "f" @@ "G" :> "g" @@ "H" :> "h" @@ "I" :> "i" @@ "J" :> "j" @@
        "K" :> "k" @@ "L" :> "l" @@ "M" :> "m" @@ "N" :> "n" @@ "O" :> "o" @@
        "P" :> "p" @@ "Q" :> "q" @@ "R" :> "r" @@ "S" :> "s" @@ "T" :> "t" @@
        "U" :> "u" @@ "V" :> "v" @@ "W" :> "w" @@ "X" :> "x" @@ "Y" :> "y" @@
        "Z" :> "z" @@ "À" :> "à" @@ "Á" :> "á" @@ "Â" :> "â" @@ "Ã" :> "ã" @@
        "Ä" :> "ä" @@ "Å" :> "å" @@ "Æ" :> "æ" @@ "Ç" :> "ç" @@ "È" :> "è" @@
        "É" :> "é" @@ "Ê" :> "ê" @@ "Ë" :> "ë" @@ "Ì" :> "ì" @@ "Í" :> "í" @@
        "Î" :> "î" @@ "Ï" :> "ï" @@ "Ð" :> "ð" @@ "Ñ" :> "ñ" @@ "Ò" :> "ò" @@
        "Ó" :> "ó" @@ "Ô" :> "ô" @@ "Õ" :> "õ" @@ "Ö" :> "ö" @@ "Ø" :> "ø" @@
        "Ù" :> "ù" @@ "Ú" :> "ú" @@ "Û" :> "û" @@ "Ü" :> "ü" @@ "Ý" :> "ý" @@
        "Þ" :> "þ" @@ "Μ" :> "μ" @@ "U+0178" :> "ÿ" )
    @@ [c \in Alphabet |-> c]

ToUpperChar(c) == UpperOf[c]

ToLowerChar(c) == LowerOf[c]

\* str.lower()
StrLower(s) == [i \in 1..Len(s) |-> ToLowerChar(s[i])]

\* str.upper()
RECURSIVE StrUpper(_)
StrUpper(s) == IF s = << >> THEN << >> ELSE ToUpperChar(Head(s)) \o StrUpper(Tail(s))

(***************************************************************************)
(* Load-completion gate                                                    *)
(***************************************************************************)
STR_LOADED == << "L", "O", "A", "D", "E", "D" >>

STR_LOAD_FAILED == << "L", "O", "A", "D", "_", "F", "A", "I", "L", "E", "D" >>

STR_PARTIALLY_LOADED ==
    << "P", "A", "R", "T", "I", "A", "L", "L", "Y", "_", "L", "O", "A", "D", "E", "D" >>

\* Bounds of the gate's inputs
MaxTimeout == 25

MaxQueryTime == 1

\* time.sleep(10)
SleepSeconds == 10

GateTimeouts == 0..MaxTimeout

\* Values of the status column the catalog may hand back.  The empty string
\* stands for both NULL and '' (the code reads `row[1] or ""`).
GateStatusValues ==
    { STR_LOADED,
      STR_LOAD_FAILED,
      STR_PARTIALLY_LOADED,
      << "L", "o", "a", "d", "e", "d" >>,
      << "l", "o", "a", "d", "_", "f", "a", "i", "l", "e", "d" >>,
      << "L", "o", "a", "d", " ", "f", "a", "i", "l", "e", "d" >>,
      << "L", "O", "A", "D", "_", "I", "N", "_", "P", "R", "O", "G", "R", "E", "S", "S" >>,
      EmptyStr }

\* cur.fetchone(): None, or the most recent matching row
NoRow == [present |-> FALSE, status |-> EmptyStr]

GateRows == { NoRow } \cup { [present |-> TRUE, status |-> s] : s \in GateStatusValues }

\* status = (row[1] or "").upper()
GateStatusOf(row) == StrUpper(row.status)

\* the locals of main before its first statement
GateLocalsInit ==
    /\ g_pc = "start"
    /\ g_elapsed = 0
    /\ g_conn = "none"
    /\ g_opens = 0
    /\ g_closes = 0
    /\ g_queries = 0
    /\ g_hist = << >>
    /\ g_poll_at = << >>
    /\ g_status = EmptyStr
    /\ g_last_row = NoRow
    /\ g_exit = -1
    /\ g_reported = NoRow

\* args = p.parse_args()
GateInit ==
    /\ g_timeout \in GateTimeouts
    /\ GateLocalsInit

\* the gate before it is started: the state of its variables while another
\* program of the repository is the one running
GateIdle ==
    /\ g_timeout = 0
    /\ GateLocalsInit

\* snowflake.connector.connect(...) returns; start = time.time(); status = last_row = None
GateConnect ==
    /\ g_pc = "start"
    /\ g_pc' = "loop"
    /\ g_conn' = "open"
    /\ g_opens' = g_opens + 1
    /\ UNCHANGED << g_timeout, g_elapsed, g_closes, g_queries, g_hist, g_poll_at,
                    g_status, g_last_row, g_exit, g_reported >>
    /\ UNCHANGED not_gate_vars

\* connect raises (missing environment variable, login failure): no connection
\* exists, the try block is never entered
GateConnectFail ==
    /\ g_pc = "start"
    /\ g_pc' = "done"
    /\ g_exit' = 1
    /\ UNCHANGED << g_timeout, g_elapsed, g_conn, g_opens, g_closes, g_queries, g_hist,
                    g_poll_at, g_status, g_last_row, g_reported >>
    /\ UNCHANGED not_gate_vars

\* (bug: conn.close() placed after the loop instead of in a finally block)
GateMutFinallyOnReturnOnly(raised) ==
    IF raised
    THEN UNCHANGED << g_conn, g_closes >>
    ELSE /\ g_conn' = "closed"
         /\ g_closes' = g_closes + 1

\* the finally block, run when the handler leaves the try by return or by exception
GateFinally(raised) ==
    /\ g_conn' = "closed"
    /\ g_closes' = g_closes + 1

\* (bug: last_row assigned before the `if row` test)
GateMutLastRowAlways(row) == row

\* last_row after a poll returned `row`
GateLastRowAfter(row) == IF row.present THEN row ELSE g_last_row

\* (bug: the failure statuses are not recognised, the gate polls on)
GateMutClassifyNoFailure(row) ==
    IF row.present /\ GateStatusOf(row) = STR_LOADED THEN 0 ELSE -1

\* (bug: the upper-cased status is compared with the catalog's spelling "Loaded")
GateMutClassifyLoadedSpelling(row) ==
    IF ~row.present THEN -1
    ELSE IF GateStatusOf(row) = << "L", "o", "a", "d", "e", "d" >> THEN 0
    ELSE IF GateStatusOf(row) \in { STR_LOAD_FAILED, STR_PARTIALLY_LOADED } THEN 2
    ELSE -1

\* the classification of one polled row: the exit code, or -1 to keep polling
GateClassify(row) ==
    IF ~row.present THEN -1
    ELSE IF GateStatusOf(row) = STR_LOADED THEN 0
    ELSE IF GateStatusOf(row) \in { STR_LOAD_FAILED, STR_PARTIALLY_LOADED } THEN 2
    ELSE -1

\* one pass of the loop body up to the sleep: the loop test holds, the query is
\* sent and its row fetched, the row is classified
GatePoll ==
    /\ g_pc = "loop"
    /\ g_elapsed < g_timeout
    /\ \E row \in GateRows, lat \in 0..MaxQueryTime :
         /\ g_queries' = g_queries + 1
         /\ g_hist' = Append(g_hist, row)
         /\ g_poll_at' = Append(g_poll_at, g_elapsed)
         /\ g_elapsed' = g_elapsed + lat
         /\ g_last_row' = GateLastRowAfter(row)
         /\ g_status' = IF row.present THEN GateStatusOf(row) ELSE g_status
         /\ IF GateClassify(row) = -1
            THEN /\ g_pc' = "sleep"
                 /\ UNCHANGED << g_exit, g_conn, g_closes >>
            ELSE /\ g_pc' = "done"
                 /\ g_exit' = GateClassify(row)
                 /\ GateFinally(FALSE)
    /\ UNCHANGED << g_timeout, g_opens, g_reported >>
    /\ UNCHANGED not_gate_vars

\* a call of lines 41-45 raises inside the loop: conn.cursor(), cur.execute(...)
\* or cur.fetchone() before a row is fetched, or cur.close() after fetchone()
\* returned `row`, which is then neither stored in last_row nor classified
GateQueryRaise ==
    /\ g_pc = "loop"
    /\ g_elapsed < g_timeout
    /\ \E lat \in 0..MaxQueryTime : g_elapsed' = g_elapsed + lat
    /\ \/ UNCHANGED << g_queries, g_hist, g_poll_at >>
       \/ \E row \in GateRows :
            /\ g_queries' = g_queries + 1
            /\ g_hist' = Append(g_hist, row)
            /\ g_poll_at' = Append(g_poll_at, g_elapsed)
    /\ g_pc' = "done"
    /\ g_exit' = 1
    /\ GateFinally(TRUE)
    /\ UNCHANGED << g_timeout, g_opens, g_status, g_last_row, g_reported >>
    /\ UNCHANGED not_gate_vars

\* time.sleep(10)
GateSleep ==
    /\ g_pc = "sleep"
    /\ g_pc' = "loop"
    /\ g_elapsed' = g_elapsed + SleepSeconds
    /\ UNCHANGED << g_timeout, g_conn, g_opens, g_closes, g_queries, g_hist, g_poll_at,
                    g_status, g_last_row, g_exit, g_reported >>
    /\ UNCHANGED not_gate_vars

\* the loop test fails: print the timeout message with last_row, return 3
GateTimeout ==
    /\ g_pc = "loop"
    /\ ~(g_elapsed < g_timeout)
    /\ g_pc' = "done"
    /\ g_exit' = 3
    /\ g_reported' = g_last_row
    /\ GateFinally(FALSE)
    /\ UNCHANGED << g_timeout, g_elapsed, g_opens, g_queries, g_hist, g_poll_at,
                    g_status, g_last_row >>
    /\ UNCHANGED not_gate_vars

GateNext ==
    \/ GateConnect
    \/ GateConnectFail
    \/ GatePoll
    \/ GateQueryRaise
    \/ GateSleep
    \/ GateTimeout

(***************************************************************************)
(* Strings: prefixes, suffixes, segments                                   *)
(***************************************************************************)
\* s.startswith(p)
StartsWith(s, p) == Len(p) <= Len(s) /\ SubSeq(s, 1, Len(p)) = p

\* s.endswith(p)
EndsWith(s, p) == Len(p) <= Len(s) /\ SubSeq(s, Len(s) - Len(p) + 1, Len(s)) = p

\* the positions of s that hold the character c
PositionsOf(s, c) == { i \in 1..Len(s) : s[i] = c }

\* s.split("/")[-1], also os.path.basename(s): what follows the last "/"
LastSegment(s) ==
    LET P == PositionsOf(s, "/")
    IN  IF P = {} THEN s
        ELSE SubSeq(s, (CHOOSE i \in P : \A j \in P : j <= i) + 1, Len(s))

\* all strings over the alphabet A of length at most n
StringsUpTo(A, n) == UNION { [1..k -> A] : k \in 0..n }

(***************************************************************************)
(* Workflow dispatcher                                                     *)
(***************************************************************************)
\* Bounds of the dispatcher's inputs
MaxSubjectLen == 3

MaxFilterLen == 2

DispAlphabet == { "a", "/" }

DispSubjects == StringsUpTo(DispAlphabet, MaxSubjectLen)

DispFilters == StringsUpTo(DispAlphabet, MaxFilterLen)

\* an environment value: unset or empty (os.environ.get(..., "")), or set
DispSettings == { EmptyStr, << "x" >> }

DispConfigs ==
    [ owner : DispSettings, repo : DispSettings, pat : DispSettings,
      begins : DispFilters, ends : DispFilters ]

\* the notification: its subject, its data member (absent, an object without
\* "url", an object with "url") and whether it carries an event time
DispEvents ==
    [ subject : DispSubjects,
      data : { "none", "nourl", "url" },
      url : { << "h", "/", "f" >> },
      has_time : BOOLEAN ]

\* HTTP status codes the provider may answer with
DispStatuses == { 200, 204, 401, 404, 422, 500 }

DispNoResult == [kind |-> "none", status |-> 0]

\* the locals of the handler before its first statement
DispLocalsInit ==
    /\ d_pc = "start"
    /\ d_subject = EmptyStr
    /\ d_blob_url = EmptyStr
    /\ d_posts = << >>
    /\ d_result = DispNoResult
    /\ d_outcome = "running"
    /\ d_error = "none"

\* the host calls the handler with a notification, under some configuration
DispInit ==
    /\ d_cfg \in DispConfigs
    /\ d_event \in DispEvents
    /\ DispLocalsInit

\* the dispatcher before it is started
DispIdle ==
    /\ DispLocalsInit
    /\ d_cfg = [owner |-> EmptyStr, repo |-> EmptyStr, pat |-> EmptyStr,
                begins |-> EmptyStr, ends |-> EmptyStr]
    /\ d_event = [subject |-> EmptyStr, data |-> "none", url |-> << "h", "/", "f" >>,
                  has_time |-> FALSE]

\* (bug: the token is not validated)
DispMutConfigErrorNoPat(cfg) ==
    IF cfg.owner = EmptyStr \/ cfg.repo = EmptyStr THEN "owner_repo" ELSE "none"

\* the two validations of the configuration: which one raises, "none" if neither
DispConfigError(cfg) ==
    IF cfg.owner = EmptyStr \/ cfg.repo = EmptyStr THEN "owner_repo"
    ELSE IF cfg.pat = EmptyStr THEN "pat"
    ELSE "none"

\* config = get_config(); raise ValueError when owner, repo or token is missing
DispValidate ==
    /\ d_pc = "start"
    /\ IF DispConfigError(d_cfg) # "none"
       THEN /\ d_pc' = "done"
            /\ d_outcome' = "raised"
            /\ d_error' = DispConfigError(d_cfg)
       ELSE /\ d_pc' = "validated"
            /\ UNCHANGED << d_outcome, d_error >>
    /\ UNCHANGED << d_cfg, d_event, d_subject, d_blob_url, d_posts, d_result >>
    /\ UNCHANGED not_disp_vars

\* blob_url = event_data.get("url", "") if event_data else ""
DispBlobUrl(ev) == IF ev.data = "url" THEN ev.url ELSE EmptyStr

\* the notification is read.  get_json() hands back the decoded data member
\* and subject, event_type, event_time are attribute reads; for a storage
\* notification (data absent or a JSON object) none of them raises.
DispParse ==
    /\ d_pc = "validated"
    /\ d_pc' = "parsed"
    /\ d_subject' = d_event.subject
    /\ d_blob_url' = DispBlobUrl(d_event)
    /\ UNCHANGED << d_cfg, d_event, d_posts, d_result, d_outcome, d_error >>
    /\ UNCHANGED not_disp_vars

\* (bug: the suffix filter is only applied when the prefix filter is set)
DispMutSkippedNestedSuffix(cfg, subject) ==
    /\ cfg.begins # EmptyStr
    /\ \/ ~StartsWith(subject, cfg.begins)
       \/ (cfg.ends # EmptyStr /\ ~EndsWith(subject, cfg.ends))

\* the two path filters: TRUE when the notification is skipped
DispSkipped(cfg, subject) ==
    \/ (cfg.begins # EmptyStr /\ ~StartsWith(subject, cfg.begins))
    \/ (cfg.ends # EmptyStr /\ ~EndsWith(subject, cfg.ends))

\* the two `return`s of the filter step, or fall through to the dispatch
DispFilter ==
    /\ d_pc = "parsed"
    /\ IF DispSkipped(d_cfg, d_subject)
       THEN /\ d_pc' = "done"
            /\ d_outcome' = "returned"
       ELSE /\ d_pc' = "filtered"
            /\ UNCHANGED d_outcome
    /\ UNCHANGED << d_cfg, d_event, d_subject, d_blob_url, d_posts, d_result, d_error >>
    /\ UNCHANGED not_disp_vars

\* file_name: the last segment of the blob URL, of the subject when there is no URL
DispFileName(blob_url, subject) ==
    IF blob_url # EmptyStr THEN LastSegment(blob_url) ELSE LastSegment(subject)

\* the request: URL built from owner and repo, token header, JSON payload
DispRequest ==
    [ owner |-> d_cfg.owner,
      repo |-> d_cfg.repo,
      token |-> d_cfg.pat,
      event_type |-> "blob-created",
      blob_url |-> d_blob_url,
      file_name |-> DispFileName(d_blob_url, d_subject),
      event_time |-> IF d_event.has_time THEN "event_time" ELSE "utcnow" ]

\* requests.post(github_url, headers=..., data=..., timeout=30) is called
DispSend ==
    /\ d_pc = "filtered"
    /\ d_pc' = "posting"
    /\ d_posts' = Append(d_posts, DispRequest)
    /\ UNCHANGED << d_cfg, d_event, d_subject, d_blob_url, d_result, d_outcome, d_error >>
    /\ UNCHANGED not_disp_vars

\* (bug: every 2xx answer is taken for success)
DispMutAccepted2xx(status) == status \in 200..299

\* response.status_code == 204
DispAccepted(status) == status = 204

\* (bug: a refused dispatch is sent again by the handler itself)
DispMutResponseRetry ==
    /\ d_pc = "posting"
    /\ \E status \in DispStatuses :
         /\ d_result' = [kind |-> "response", status |-> status]
         /\ IF DispAccepted(status)
            THEN /\ d_outcome' = "returned"
                 /\ d_pc' = "done"
            ELSE /\ UNCHANGED d_outcome
                 /\ d_pc' = "filtered"
    /\ UNCHANGED << d_cfg, d_event, d_subject, d_blob_url, d_posts, d_error >>
    /\ UNCHANGED not_disp_vars

\* requests.post returns a response: 204 logs success and the handler returns,
\* any other status raises Exception (not a RequestException, so it propagates)
DispResponse ==
    /\ d_pc = "posting"
    /\ \E status \in DispStatuses :
         /\ d_result' = [kind |-> "response", status |-> status]
         /\ IF DispAccepted(status)
            THEN /\ d_outcome' = "returned"
                 /\ UNCHANGED d_error
            ELSE /\ d_outcome' = "raised"
                 /\ d_error' = "status"
    /\ d_pc' = "done"
    /\ UNCHANGED << d_cfg, d_event, d_subject, d_blob_url, d_posts >>
    /\ UNCHANGED not_disp_vars

\* requests.post raises requests.exceptions.Timeout after 30 seconds: logged, re-raised
DispTimeout ==
    /\ d_pc = "posting"
    /\ d_result' = [kind |-> "timeout", status |-> 0]
    /\ d_outcome' = "raised"
    /\ d_error' = "timeout"
    /\ d_pc' = "done"
    /\ UNCHANGED << d_cfg, d_event, d_subject, d_blob_url, d_posts >>
    /\ UNCHANGED not_disp_vars

\* requests.post raises another RequestException: logged, re-raised
DispTransportError ==
    /\ d_pc = "posting"
    /\ d_result' = [kind |-> "error", status |-> 0]
    /\ d_outcome' = "raised"
    /\ d_error' = "transport"
    /\ d_pc' = "done"
    /\ UNCHANGED << d_cfg, d_event, d_subject, d_blob_url, d_posts >>
    /\ UNCHANGED not_disp_vars

DispNext ==
    \/ DispValidate
    \/ DispParse
    \/ DispFilter
    \/ DispSend
    \/ DispResponse
    \/ DispTimeout
    \/ DispTransportError

(***************************************************************************)
(* Spreadsheet splitter: constants and pure helpers                        *)
(***************************************************************************)
STR_ARCHIVE_DIR == << "_", "a", "r", "c", "h", "i", "v", "e", "/" >>

STR_DSP_SUMMARY_DIR == << "d", "s", "p", "_", "s", "u", "m", "m", "a", "r", "y", "/" >>

STR_DRIVER_ROUTES_DIR ==
    << "d", "r", "i", "v", "e", "r", "_", "r", "o", "u", "t", "e", "s", "/" >>

STR_DSP_SUMMARY == << "d", "s", "p", "_", "s", "u", "m", "m", "a", "r", "y" >>

STR_DRIVER_ROUTES == << "d", "r", "i", "v", "e", "r", "_", "r", "o", "u", "t", "e", "s" >>

STR_TEMP_PREFIX == << "~", "$" >>

STR_XLSX == << ".", "x", "l", "s", "x" >>

STR_CSV == << ".", "c", "s", "v" >>

STR_ROUTES_PREFIX == << "r", "o", "u", "t", "e", "s", "_" >>

STR_DSK4 == << "d", "s", "k", "4" >>

STR_DAYOFOPSPLAN == << "d", "a", "y", "o", "f", "o", "p", "s", "p", "l", "a", "n" >>

STR_ROUTES_SHEET == << "R", "o", "u", "t", "e", "s" >>

Digits == << "0", "1", "2", "3", "4", "5", "6", "7", "8", "9" >>

IsDigit(c) == \E i \in 1..Len(Digits) : Digits[i] = c

\* int(c) for a digit c
DigitValue(c) == (CHOOSE i \in 1..Len(Digits) : Digits[i] = c) - 1

\* int(s) for a string of digits
RECURSIVE DigitsValue(_)
DigitsValue(s) ==
    IF s = << >> THEN 0
    ELSE DigitsValue(SubSeq(s, 1, Len(s) - 1)) * Len(Digits) + DigitValue(s[Len(s)])

\* str(n) for a natural number n
RECURSIVE NatToStr(_)
NatToStr(n) ==
    IF n < Len(Digits) THEN << Digits[n + 1] >>
    ELSE NatToStr(n \div Len(Digits)) \o << Digits[(n % Len(Digits)) + 1] >>

\* f"{n:02d}"
Pad2(n) == IF n < Len(Digits) THEN << "0" >> \o NatToStr(n) ELSE NatToStr(n)

\* c.isalnum() for a character c of the alphabet
IsAlnumOf ==
    [c \in Alphabet |->
        c \in {
          "0", "1", "2", "3", "4", "5", "6", "7", "8", "9", "A", "B", "C", "D",
          "E", "F", "G", "H", "I", "J", "K", "L", "M", "N", "O", "P", "Q", "R",
          "S", "T", "U", "V", "W", "X", "Y", "Z", "a", "b", "c", "d", "e", "f",
          "g", "h", "i", "j", "k", "l", "m", "n", "o", "p", "q", "r", "s", "t",
          "u", "v", "w", "x", "y", "z", "ª", "²", "³", "µ", "¹", "º", "¼", "½",
          "¾", "À", "Á", "Â", "Ã", "Ä", "Å", "Æ", "Ç", "È", "É", "Ê", "Ë", "Ì",
          "Í", "Î", "Ï", "Ð", "Ñ", "Ò", "Ó", "Ô", "Õ", "Ö", "Ø", "Ù", "Ú", "Û",
          "Ü", "Ý", "Þ", "ß", "à", "á", "â", "ã", "ä", "å", "æ", "ç", "è", "é",
          "ê", "ë", "ì", "í", "î", "ï", "ð", "ñ", "ò", "ó", "ô", "õ", "ö", "ø",
          "ù", "ú", "û", "ü", "ý", "þ", "ÿ", "Μ", "U+0178", "μ" }]

IsAlnum(c) == IsAlnumOf[c]

\* c.isspace() for a character c of the alphabet: what str.strip() removes
IsSpaceOf ==
    [c \in Alphabet |->
        c \in { " ", " ", "\t", "\n", "", "\f", "\r", "", "", "", "", "" }]

IsSpace(c) == IsSpaceOf[c]

\* sub in s
Contains(s, sub) ==
    \E i \in 1..(Len(s) - Len(sub) + 1) : SubSeq(s, i, i + Len(sub) - 1) = sub

\* full_path.split("/", 1)[1] if "/" in full_path else full_path
AfterFirstSlash(s) ==
    LET P == PositionsOf(s, "/")
    IN  IF P = {} THEN s
        ELSE SubSeq(s, (CHOOSE i \in P : \A j \in P : i <= j) + 1, Len(s))

\* s.strip()
Strip(s) ==
    LET P == { i \in 1..Len(s) : ~IsSpace(s[i]) }
    IN  IF P = {} THEN EmptyStr
        ELSE SubSeq(s, CHOOSE i \in P : \A j \in P : i <= j,
                       CHOOSE i \in P : \A j \in P : j <= i)

\* s.rstrip(c)
RStripChar(s, c) ==
    LET P == { i \in 1..Len(s) : s[i] # c }
    IN  IF P = {} THEN EmptyStr
        ELSE SubSeq(s, 1, CHOOSE i \in P : \A j \in P : j <= i)

\* os.path.basename(full_path).strip().rstrip("'").rstrip('"')
FileNameOf(full_path) == RStripChar(RStripChar(Strip(LastSegment(full_path)), "'"), "\"")

\* filename[:-5]
StemOf(filename) == SubSeq(filename, 1, Len(filename) - Len(STR_XLSX))

\* the positions where r"(\d{4})-(\d{2})-(\d{2})" matches in stem
DateMatchPositions(stem) ==
    { i \in 1..(Len(stem) - 9) :
        /\ \A k \in { 0, 1, 2, 3, 5, 6, 8, 9 } : IsDigit(stem[i + k])
        /\ stem[i + 4] = "-"
        /\ stem[i + 7] = "-" }

\* datetime.strptime(f"{year}-{month}-01", "%Y-%m-%d") does not raise: the
\* year is at least 1 and the month is 01..12
StrptimeAccepts(year, month) ==
    /\ DigitsValue(year) >= 1
    /\ DigitsValue(month) \in 1..12

\* (bug: the matched date is not validated)
ExtractMutNoValidation(stem, now) ==
    LET P == DateMatchPositions(stem)
        i == CHOOSE p \in P : \A q \in P : p <= q
    IN  IF P # {}
        THEN << SubSeq(stem, i, i + 3), SubSeq(stem, i + 5, i + 6) >>
        ELSE << NatToStr(now[1]), Pad2(now[2]) >>

\* _extract_year_month(stem), with now = datetime.utcnow() as (year, month)
ExtractYearMonth(stem, now) ==
    LET P == DateMatchPositions(stem)
        i == CHOOSE p \in P : \A q \in P : p <= q
    IN  IF P # {} /\ StrptimeAccepts(SubSeq(stem, i, i + 3), SubSeq(stem, i + 5, i + 6))
        THEN << SubSeq(stem, i, i + 3), SubSeq(stem, i + 5, i + 6) >>
        ELSE << NatToStr(now[1]), Pad2(now[2]) >>

\* (bug: the patterns are matched against the name as written)
DetermineMutCaseSensitive(filename) ==
    IF StartsWith(filename, STR_ROUTES_PREFIX) /\ Contains(filename, STR_DSK4)
    THEN [file_type |-> STR_DRIVER_ROUTES, target |-> STR_ROUTES_SHEET]
    ELSE IF Contains(filename, STR_DAYOFOPSPLAN)
    THEN [file_type |-> STR_DSP_SUMMARY, target |-> EmptyStr]
    ELSE [file_type |-> STR_DSP_SUMMARY, target |-> EmptyStr]

\* (bug: a file name of no known pattern is taken for a route workbook)
DetermineMutUnknownAsRoutes(filename) ==
    LET lower == StrLower(filename)
    IN  IF Contains(lower, STR_DAYOFOPSPLAN)
             /\ ~(StartsWith(lower, STR_ROUTES_PREFIX) /\ Contains(lower, STR_DSK4))
        THEN [file_type |-> STR_DSP_SUMMARY, target |-> EmptyStr]
        ELSE [file_type |-> STR_DRIVER_ROUTES, target |-> STR_ROUTES_SHEET]

\* _determine_file_type(filename): (file_type, target_sheet); the empty
\* target stands for None (line 216 tests its truth value)
DetermineFileType(filename) ==
    LET lower == StrLower(filename)
    IN  IF StartsWith(lower, STR_ROUTES_PREFIX) /\ Contains(lower, STR_DSK4)
        THEN [file_type |-> STR_DRIVER_ROUTES, target |-> STR_ROUTES_SHEET]
        ELSE IF Contains(lower, STR_DAYOFOPSPLAN)
        THEN [file_type |-> STR_DSP_SUMMARY, target |-> EmptyStr]
        ELSE [file_type |-> STR_DSP_SUMMARY, target |-> EmptyStr]

\* the filename matches neither pattern: the "Unknown file pattern" warning
UnknownPattern(filename) ==
    LET lower == StrLower(filename)
    IN  /\ ~(StartsWith(lower, STR_ROUTES_PREFIX) /\ Contains(lower, STR_DSK4))
        /\ ~Contains(lower, STR_DAYOFOPSPLAN)

\* (bug: the dot is kept as well)
SafeMutKeepsDot(name) ==
    [i \in 1..Len(name) |->
        IF IsAlnum(name[i]) \/ name[i] \in { "-", "_", "." } THEN name[i] ELSE "_"]

\* _safe(name)
Safe(name) ==
    [i \in 1..Len(name) |->
        IF IsAlnum(name[i]) \/ name[i] \in { "-", "_" } THEN name[i] ELSE "_"]

\* OUT_PREFIX_TEMPLATE.format(...): "{file_type}/{year}/{month}/"
OutPrefix(file_type, ym) == file_type \o << "/" >> \o ym[1] \o << "/" >> \o ym[2] \o << "/" >>

\* ARCHIVE_PREFIX_TEMPLATE.format(...): "_archive/{file_type}/{year}/{month}/"
ArchivePrefix(file_type, ym) == STR_ARCHIVE_DIR \o OutPrefix(file_type, ym)

\* (bug: the output name leaves out the stem)
OutBlobMutNoStem(out_prefix, stem, sheet) == out_prefix \o Safe(sheet) \o STR_CSV

\* f"{out_prefix}{stem}__{_safe(sheet)}.csv"
OutBlobName(out_prefix, stem, sheet) ==
    out_prefix \o stem \o << "_", "_" >> \o Safe(sheet) \o STR_CSV

(***************************************************************************)
(* Spreadsheet splitter: the handler split_excel                           *)
(***************************************************************************)
\* Bounds of the splitter's inputs
MaxSheets == 2

MaxPollLatency == 30

\* _wait_for_copy_success(dst_blob, copy_id or "", timeout_s=60)
COPY_TIMEOUT_S == 60

\* time.sleep(1)
POLL_SLEEP_S == 1

\* ACCEPTED_SHEETS = None: no allow-list
ACCEPTED_SHEETS == [configured |-> FALSE, names |-> {}]

STR_CONTAINER_DIR == << "i", "n", "g", "e", "s", "t", "i", "o", "n", "/" >>

SplitDirs == { EmptyStr, STR_ARCHIVE_DIR, STR_DSP_SUMMARY_DIR, STR_DRIVER_ROUTES_DIR }

SplitNamePrefixes == { EmptyStr, STR_TEMP_PREFIX }

SplitStems ==
    { << "R", "o", "u", "t", "e", "s", "_", "D", "S", "K", "4", "_",
         "2", "0", "2", "5", "-", "0", "9", "-", "1", "3" >>,
      << "2", "0", "2", "5", "-", "0", "2", "-", "1", "0", "-",
         "D", "a", "y", "O", "f", "O", "p", "s", "P", "l", "a", "n" >>,
      << "r", "e", "p", "o", "r", "t" >> }

SplitExtensions ==
    { STR_XLSX,
      << ".", "X", "L", "S", "X" >>,
      << ".", "x", "l", "s", "x", "'" >>,
      STR_CSV }

\* the names the trigger may hand over: container, folder, file name
SplitPaths ==
    { STR_CONTAINER_DIR \o d \o pre \o stem \o ext :
        d \in SplitDirs, pre \in SplitNamePrefixes, stem \in SplitStems,
        ext \in SplitExtensions }

SplitSheetNames ==
    { STR_ROUTES_SHEET,
      << "r", "o", "u", "t", "e", "s" >>,
      << "A", " ", "B" >>,
      << "A", "_", "B" >> }

\* workbooks: up to MaxSheets sheets with distinct names
SplitWorkbooks ==
    { w \in UNION { [1..k -> SplitSheetNames] : k \in 0..MaxSheets } :
        \A i, j \in 1..Len(w) : w[i] = w[j] => i = j }

\* the deployments: the allow-list as shipped (none), one naming a sheet, an
\* empty one
SplitAllowLists ==
    { ACCEPTED_SHEETS,
      [configured |-> TRUE, names |-> { << "A", " ", "B" >> }],
      [configured |-> TRUE, names |-> {}] }

SplitEnvs == { "serviceUri", "connection_string", "none" }

SplitNows == { << 2026, 10 >> }

SplitNoLocals ==
    [ blob_name |-> EmptyStr, filename |-> EmptyStr, stem |-> EmptyStr,
      ym |-> << EmptyStr, EmptyStr >>, file_type |-> EmptyStr, target |-> EmptyStr ]

SplitNoArchive == [name |-> EmptyStr, status |-> "none"]

SplitNoSnapshot == [store |-> {}, exported |-> FALSE]

\* the locals and the container before the handler's first statement
SplitLocalsInit ==
    /\ s_pc = "start"
    /\ s_loc = SplitNoLocals
    /\ s_read = FALSE
    /\ s_sheets = << >>
    /\ s_idx = 0
    /\ s_store = {}
    /\ s_uploads = << >>
    /\ s_archive = SplitNoArchive
    /\ s_copies = 0
    /\ s_clock = 0
    /\ s_seen = "none"
    /\ s_wait = "none"
    /\ s_source = "present"
    /\ s_deletes = 0
    /\ s_skip = "none"
    /\ s_failed_at = "none"
    /\ s_outcome = "running"

\* the trigger fires for an object of the container
SplitInit ==
    /\ s_path \in SplitPaths
    /\ s_workbook \in SplitWorkbooks
    /\ s_env \in SplitEnvs
    /\ s_now \in SplitNows
    /\ s_accepted \in SplitAllowLists
    /\ s_run = 1
    /\ s_snap = SplitNoSnapshot
    /\ SplitLocalsInit

\* the splitter before it is started
SplitIdle ==
    /\ s_path = EmptyStr
    /\ s_workbook = << >>
    /\ s_env = "none"
    /\ s_now = << 2026, 10 >>
    /\ s_accepted = ACCEPTED_SHEETS
    /\ s_run = 1
    /\ s_snap = SplitNoSnapshot
    /\ SplitLocalsInit

\* variables no step but the named ones changes; no step of the handler
\* changes its inputs, its deployment or the host's record of deliveries
split_inputs == << s_path, s_workbook, s_env, s_now, s_accepted, s_run, s_snap >>

split_archive_vars == << s_archive, s_copies, s_clock, s_seen, s_wait, s_source,
                         s_deletes >>

split_export_vars == << s_read, s_sheets, s_idx, s_store, s_uploads >>

\* blob_name.startswith("_archive/") or blob_name.startswith("dsp_summary/")
SplitInternalPath(blob_name) ==
    StartsWith(blob_name, STR_ARCHIVE_DIR) \/ StartsWith(blob_name, STR_DSP_SUMMARY_DIR)

\* filename.startswith("~$") or not filename.lower().endswith(".xlsx")
SplitTempOrNotXlsx(filename) ==
    StartsWith(filename, STR_TEMP_PREFIX) \/ ~EndsWith(StrLower(filename), STR_XLSX)

\* lines 182-202: the two skips, then stem, partition and classification
SplitFilter ==
    /\ s_pc = "start"
    /\ LET blob_name == AfterFirstSlash(s_path)
           filename == FileNameOf(s_path)
           stem == StemOf(filename)
           ft == DetermineFileType(filename)
       IN  IF SplitInternalPath(blob_name)
           THEN /\ s_loc' = [s_loc EXCEPT !.blob_name = blob_name]
                /\ s_skip' = "internal_path"
                /\ s_outcome' = "returned"
                /\ s_pc' = "done"
           ELSE IF SplitTempOrNotXlsx(filename)
           THEN /\ s_loc' = [s_loc EXCEPT !.blob_name = blob_name, !.filename = filename]
                /\ s_skip' = "temp_or_not_xlsx"
                /\ s_outcome' = "returned"
                /\ s_pc' = "done"
           ELSE /\ s_loc' = [ blob_name |-> blob_name, filename |-> filename,
                              stem |-> stem, ym |-> ExtractYearMonth(stem, s_now),
                              file_type |-> ft.file_type, target |-> ft.target ]
                /\ s_pc' = "connect"
                /\ UNCHANGED << s_skip, s_outcome >>
    /\ UNCHANGED << split_inputs, split_export_vars, split_archive_vars, s_failed_at >>
    /\ UNCHANGED not_split_vars

\* (bug: the except block logs the error and the handler returns)
SplitMutRaisedSwallowed(step) ==
    /\ s_pc' = "done"
    /\ s_outcome' = "returned"
    /\ s_failed_at' = step

\* the except block: log the traceback, re-raise
SplitRaised(step) ==
    /\ s_pc' = "done"
    /\ s_outcome' = "raised"
    /\ s_failed_at' = step

\* bsc = _get_blob_service_client(): RuntimeError when neither setting exists
SplitConnect ==
    /\ s_pc = "connect"
    /\ IF s_env = "none"
       THEN SplitRaised("connect")
       ELSE /\ s_pc' = "read"
            /\ UNCHANGED << s_outcome, s_failed_at >>
    /\ UNCHANGED << split_inputs, s_loc, split_export_vars, split_archive_vars, s_skip >>
    /\ UNCHANGED not_split_vars

\* the members of a sequence
Range(q) == { q[i] : i \in 1..Len(q) }

\* [s for s in sheet_names if s in allowed]
RECURSIVE FilterSheets(_, _)
FilterSheets(names, allowed) ==
    IF names = << >> THEN << >>
    ELSE IF Head(names) \in allowed
    THEN << Head(names) >> \o FilterSheets(Tail(names), allowed)
    ELSE FilterSheets(Tail(names), allowed)

\* (bug: a workbook without the target sheet is exported whole)
SelectMutMissingTargetExportsAll(workbook, target, accepted) ==
    IF target # EmptyStr /\ target \in Range(workbook)
    THEN [sheets |-> << target >>, why |-> "none"]
    ELSE LET names == IF accepted.configured
                      THEN FilterSheets(workbook, accepted.names)
                      ELSE workbook
         IN  [sheets |-> names, why |-> IF names = << >> THEN "no_sheets" ELSE "none"]

\* lines 213-227: the sheets to export and whether the handler goes on;
\* why: "no_target" (line 221), "no_sheets" (line 227) or "none"
SelectSheets(workbook, target, accepted) ==
    IF target # EmptyStr
    THEN IF target \in Range(workbook)
         THEN [sheets |-> << target >>, why |-> "none"]
         ELSE [sheets |-> workbook, why |-> "no_target"]
    ELSE LET names == IF accepted.configured
                      THEN FilterSheets(workbook, accepted.names)
                      ELSE workbook
         IN  [sheets |-> names, why |-> IF names = << >> THEN "no_sheets" ELSE "none"]

\* raw_bytes = inputblob.read(); xls = pd.ExcelFile(...); the sheet selection
SplitRead ==
    /\ s_pc = "read"
    /\ s_read' = TRUE
    /\ LET sel == SelectSheets(s_workbook, s_loc.target, s_accepted)
       IN  /\ s_sheets' = sel.sheets
           /\ IF sel.why # "none"
              THEN /\ s_skip' = sel.why
                   /\ s_outcome' = "returned"
                   /\ s_pc' = "done"
              ELSE /\ s_pc' = "export"
                   /\ UNCHANGED << s_skip, s_outcome >>
    /\ UNCHANGED << split_inputs, s_loc, s_idx, s_store, s_uploads, split_archive_vars,
                    s_failed_at >>
    /\ UNCHANGED not_split_vars

\* container.upload_blob(name, data, overwrite=True): the object is replaced
PutBlob(store, name, sheet) == { b \in store : b[1] # name } \cup { << name, sheet >> }

\* (bug: the loop is left after its first pass)
SplitMutExportStopsAfterFirst ==
    /\ s_pc = "export"
    /\ s_idx < Len(s_sheets)
    /\ LET sheet == s_sheets[s_idx + 1]
           name == OutBlobName(OutPrefix(s_loc.file_type, s_loc.ym), s_loc.stem, sheet)
       IN  /\ s_store' = PutBlob(s_store, name, sheet)
           /\ s_uploads' = Append(s_uploads, name)
    /\ s_idx' = s_idx + 1
    /\ s_pc' = "archive"
    /\ UNCHANGED << split_inputs, s_loc, s_read, s_sheets, split_archive_vars, s_skip,
                    s_failed_at, s_outcome >>
    /\ UNCHANGED not_split_vars

\* one pass of the export loop: read the sheet, upload its CSV; after the
\* last sheet the loop ends
SplitExportSheet ==
    /\ s_pc = "export"
    /\ s_idx < Len(s_sheets)
    /\ LET sheet == s_sheets[s_idx + 1]
           name == OutBlobName(OutPrefix(s_loc.file_type, s_loc.ym), s_loc.stem, sheet)
       IN  /\ s_store' = PutBlob(s_store, name, sheet)
           /\ s_uploads' = Append(s_uploads, name)
    /\ s_idx' = s_idx + 1
    /\ s_pc' = IF s_idx + 1 = Len(s_sheets) THEN "archive" ELSE "export"
    /\ UNCHANGED << split_inputs, s_loc, s_read, s_sheets, split_archive_vars, s_skip,
                    s_failed_at, s_outcome >>
    /\ UNCHANGED not_split_vars

\* the for loop of lines 256-267 has run to its end
SplitExportFinished ==
    /\ s_read
    /\ s_skip = "none"
    /\ s_idx = Len(s_sheets)

\* f"{archive_prefix}{filename}"
ArchiveBlobName(loc) == ArchivePrefix(loc.file_type, loc.ym) \o loc.filename

\* dst_blob.start_copy_from_url(src_blob.url): the service accepts the copy,
\* which is pending or, for a small object, already complete
SplitStartCopy ==
    /\ s_pc = "archive"
    /\ \E st \in { "pending", "success" } :
         s_archive' = [name |-> ArchiveBlobName(s_loc), status |-> st]
    /\ s_copies' = s_copies + 1
    /\ s_clock' = 0
    /\ s_pc' = "wait"
    /\ UNCHANGED << split_inputs, s_loc, split_export_vars, s_seen, s_wait,
                    s_source, s_deletes, s_skip, s_failed_at, s_outcome >>
    /\ UNCHANGED not_split_vars

\* the storage service works on the pending copy
StorageCopyStep ==
    /\ s_archive.status = "pending"
    /\ \E st \in { "success", "aborted", "failed" } :
         s_archive' = [s_archive EXCEPT !.status = st]
    /\ UNCHANGED << split_inputs, s_pc, s_loc, split_export_vars, s_copies, s_clock,
                    s_seen, s_wait, s_source, s_deletes, s_skip, s_failed_at,
                    s_outcome >>
    /\ UNCHANGED not_split_vars

\* (bug: a copy that has ended, however it ended, counts as done)
WaitMutVerdictAnyEnd(status) ==
    IF status \in { "success", "aborted", "failed" } THEN "true" ELSE "sleep"

\* lines 159-163: what one poll does with the status it read
WaitVerdict(status) ==
    IF status = "success" THEN "true"
    ELSE IF status \in { "aborted", "failed" } THEN "false"
    ELSE "sleep"

\* (bug: the wait reports success when its time is up)
WaitMutOnDeadlineTrue == "true"

\* line 164: the loop ended without a verdict
WaitOnDeadline == "false"

\* lines 277-282 once _wait_for_copy_success has returned `result`
SplitAfterWait(result) ==
    IF result = "true"
    THEN /\ s_pc' = "delete"
         /\ UNCHANGED s_outcome
    ELSE /\ s_pc' = "done"
         /\ s_outcome' = "returned"

\* one pass of the wait loop: the deadline is still ahead, the destination's
\* properties are read, the status decides, otherwise sleep one second
SplitWaitPoll ==
    /\ s_pc = "wait"
    /\ s_clock < COPY_TIMEOUT_S
    /\ s_seen' = s_archive.status
    /\ \E lat \in { 0, MaxPollLatency } :
         IF WaitVerdict(s_archive.status) = "sleep"
         THEN /\ s_clock' = s_clock + lat + POLL_SLEEP_S
              /\ UNCHANGED << s_wait, s_pc, s_outcome >>
         ELSE /\ s_clock' = s_clock + lat
              /\ s_wait' = WaitVerdict(s_archive.status)
              /\ SplitAfterWait(WaitVerdict(s_archive.status))
    /\ UNCHANGED << split_inputs, s_loc, split_export_vars, s_archive, s_copies, s_source,
                    s_deletes, s_skip, s_failed_at >>
    /\ UNCHANGED not_split_vars

\* the loop test fails: the deadline has passed
SplitWaitTimeout ==
    /\ s_pc = "wait"
    /\ ~(s_clock < COPY_TIMEOUT_S)
    /\ s_wait' = WaitOnDeadline
    /\ SplitAfterWait(WaitOnDeadline)
    /\ UNCHANGED << split_inputs, s_loc, split_export_vars, s_archive, s_copies, s_clock,
                    s_seen, s_source, s_deletes, s_skip, s_failed_at >>
    /\ UNCHANGED not_split_vars

\* container.delete_blob(blob_name), then the handler returns
SplitDelete ==
    /\ s_pc = "delete"
    /\ s_source' = "deleted"
    /\ s_deletes' = s_deletes + 1
    /\ s_pc' = "done"
    /\ s_outcome' = "returned"
    /\ UNCHANGED << split_inputs, s_loc, split_export_vars, s_archive, s_copies, s_clock,
                    s_seen, s_wait, s_skip, s_failed_at >>
    /\ UNCHANGED not_split_vars

\* a call of the step the handler is at raises (credential, workbook parse,
\* sheet read, upload, copy start, properties, delete): caught at line 284,
\* logged and re-raised
SplitStepRaises ==
    /\ s_pc \in { "connect", "read", "export", "archive", "wait", "delete" }
    /\ (s_pc = "wait") => (s_clock < COPY_TIMEOUT_S)
    /\ SplitRaised(s_pc)
    /\ UNCHANGED << split_inputs, s_loc, split_export_vars, split_archive_vars, s_skip >>
    /\ UNCHANGED not_split_vars

\* Bound of the deliveries of one event
MaxRuns == 2

\* the sources the re-delivery runs start from: names that pass the filter
RerunPaths ==
    { STR_CONTAINER_DIR \o stem \o STR_XLSX : stem \in SplitStems }

\* the first delivery of a source that will be delivered again
RerunInit ==
    /\ s_path \in RerunPaths
    /\ s_workbook \in SplitWorkbooks
    /\ s_env \in { "serviceUri", "none" }
    /\ s_now \in SplitNows
    /\ s_accepted = ACCEPTED_SHEETS
    /\ s_run = 1
    /\ s_snap = SplitNoSnapshot
    /\ SplitLocalsInit

\* the host delivers the event of the same source again (its retry after a
\* raise, or the trigger firing again while the object is still there): the
\* handler starts from scratch, at the same or a later date, on the container
\* as the earlier delivery left it
SplitRedeliver ==
    /\ s_pc = "done"
    /\ s_source = "present"
    /\ s_run < MaxRuns
    /\ s_run' = s_run + 1
    /\ s_snap' = [store |-> s_store, exported |-> SplitExportFinished]
    /\ \E now \in { << 2026, 10 >>, << 2026, 11 >> } :
         /\ now[1] * 12 + now[2] >= s_now[1] * 12 + s_now[2]
         /\ s_now' = now
    /\ s_pc' = "start"
    /\ s_loc' = SplitNoLocals
    /\ s_read' = FALSE
    /\ s_sheets' = << >>
    /\ s_idx' = 0
    /\ s_uploads' = << >>
    /\ s_copies' = 0
    /\ s_clock' = 0
    /\ s_seen' = "none"
    /\ s_wait' = "none"
    /\ s_deletes' = 0
    /\ s_skip' = "none"
    /\ s_failed_at' = "none"
    /\ s_outcome' = "running"
    /\ UNCHANGED << s_path, s_workbook, s_env, s_accepted, s_store, s_archive, s_source >>
    /\ UNCHANGED not_split_vars

SplitNext ==
    \/ SplitFilter
    \/ SplitConnect
    \/ SplitRead
    \/ SplitExportSheet
    \/ SplitStartCopy
    \/ StorageCopyStep
    \/ SplitWaitPoll
    \/ SplitWaitTimeout
    \/ SplitDelete
    \/ SplitStepRaises

\* the handler, and the host delivering the event again
RerunNext ==
    \/ SplitFilter
    \/ SplitConnect
    \/ SplitRead
    \/ SplitExportSheet
    \/ SplitStartCopy
    \/ StorageCopyStep
    \/ SplitWaitPoll
    \/ SplitWaitTimeout
    \/ SplitDelete
    \/ SplitStepRaises
    \/ SplitRedeliver

(***************************************************************************)
(* Spreadsheet splitter: the helpers _determine_file_type,                 *)
(* _extract_year_month and _safe, each called on one argument              *)
(***************************************************************************)
\* Bound of the sheet names handed to _safe
MaxNameLen == 3

\* file names for _determine_file_type: a head, a middle and a tail
FnFilenames ==
    LET Heads ==
            { EmptyStr,
              << "R", "o", "u", "t", "e", "s", "_" >>,
              << "r", "o", "u", "t", "e", "s", "_" >>,
              << "R", "O", "U", "T", "E", "S", "_" >>,
              << "x", "R", "o", "u", "t", "e", "s", "_" >>,
              << "R", "o", "u", "t", "e", "s" >> }
        Middles ==
            { EmptyStr,
              << "D", "S", "K", "4" >>,
              << "d", "s", "k", "4" >>,
              << "D", "S", "K" >>,
              << "D", "a", "y", "O", "f", "O", "p", "s", "P", "l", "a", "n" >>,
              << "d", "a", "y", "o", "f", "o", "p", "s", "p", "l", "a", "n" >>,
              << "D", "A", "Y", "O", "F", "O", "P", "S", "P", "L", "A", "N" >>,
              << "D", "a", "y", "O", "f", "O", "p", "s" >> }
        Tails ==
            { EmptyStr,
              << "_", "D", "S", "K", "4" >>,
              << "-", "D", "a", "y", "O", "f", "O", "p", "s", "P", "l", "a", "n" >> }
    IN  { h \o m \o t \o STR_XLSX : h \in Heads, m \in Middles, t \in Tails }

\* stems for _extract_year_month: text, a date-shaped part, text
FnStems ==
    LET Years ==
            { << "0", "0", "0", "0" >>,
              << "1", "9", "0", "0" >>,
              << "2", "0", "2", "4" >>,
              << "2", "0", "2", "5" >> }
        Months ==
            { << "0", "0" >>,
              << "0", "2" >>,
              << "0", "4" >>,
              << "1", "2" >>,
              << "1", "3" >> }
        Days ==
            { << "0", "0" >>,
              << "0", "1" >>,
              << "2", "9" >>,
              << "3", "0" >>,
              << "3", "1" >>,
              << "3", "2" >> }
        Heads ==
            { EmptyStr,
              << "r", "_" >>,
              << "1" >>,
              << "2", "0", "2", "5", "-", "1", "3", "-", "0", "1", "_" >> }
        Tails ==
            { EmptyStr,
              << "_", "2", "0", "2", "6", "-", "0", "1", "-", "1", "5" >> }
        Undated ==
            { << "r", "e", "p", "o", "r", "t" >>,
              << "2", "0", "2", "5", "-", "9", "-", "1", "3" >>,
              << "2", "0", "2", "5", "0", "9", "1", "3" >>,
              << "2", "0", "2", "5", "_", "0", "9", "_", "1", "3" >> }
    IN  { h \o y \o << "-" >> \o m \o << "-" >> \o d \o t :
            h \in Heads, y \in Years, m \in Months, d \in Days, t \in Tails }
        \cup Undated

FnNows == { << 2026, 10 >>, << 2027, 3 >> }

\* sheet names for _safe
FnSheetNames ==
    StringsUpTo({ "a", "Z", "7", "-", "_", " ", ".", "/", "é", "½", "×" }, MaxNameLen)

\* a helper is about to be called with its argument
FnInit ==
    /\ f_pc = "ready"
    /\ \/ f_kind = "classify" /\ f_in \in FnFilenames /\ f_now = << 2026, 10 >>
       \/ f_kind = "extract" /\ f_in \in FnStems /\ f_now \in FnNows
       \/ f_kind = "safe" /\ f_in \in FnSheetNames /\ f_now = << 2026, 10 >>
    /\ f_out = << >>

\* no helper is called on its own
FnIdle ==
    /\ f_pc = "done"
    /\ f_kind = "none"
    /\ f_in = EmptyStr
    /\ f_now = << 2026, 10 >>
    /\ f_out = << >>

\* file_type, target_sheet = _determine_file_type(filename)
FnClassify ==
    /\ f_pc = "ready"
    /\ f_kind = "classify"
    /\ f_out' = DetermineFileType(f_in)
    /\ f_pc' = "done"
    /\ UNCHANGED << f_kind, f_in, f_now >>
    /\ UNCHANGED not_fn_vars

\* year, month = _extract_year_month(stem)
FnExtract ==
    /\ f_pc = "ready"
    /\ f_kind = "extract"
    /\ f_out' = ExtractYearMonth(f_in, f_now)
    /\ f_pc' = "done"
    /\ UNCHANGED << f_kind, f_in, f_now >>
    /\ UNCHANGED not_fn_vars

\* _safe(sheet)
FnSanitize ==
    /\ f_pc = "ready"
    /\ f_kind = "safe"
    /\ f_out' = Safe(f_in)
    /\ f_pc' = "done"
    /\ UNCHANGED << f_kind, f_in, f_now >>
    /\ UNCHANGED not_fn_vars

FnNext ==
    \/ FnClassify
    \/ FnExtract
    \/ FnSanitize

(***************************************************************************)
(* Spreadsheet splitter: two invocations of split_excel running side by    *)
(* side, for two source objects of the container or for the same one       *)
(***************************************************************************)
PairIds == { 1, 2 }

\* the source objects: an undated and a dated name, each at the top of the
\* container and in a folder; two more undated names at the top, one that
\* continues "r" with an underscore and one that does not; and one name
\* with the extension in capitals
PairPaths ==
    LET Dirs == { EmptyStr, << "i", "n", "b", "o", "x", "/" >> }
        InBothFolders == { << "r" >>,
                           << "2", "0", "2", "6", "-", "1", "0", "-", "1", "3" >> }
        AtTheTop == { << "r", "_", "_", "A" >>, << "r", "q" >> }
    IN  { STR_CONTAINER_DIR \o d \o stem \o STR_XLSX : d \in Dirs, stem \in InBothFolders }
            \cup { STR_CONTAINER_DIR \o stem \o STR_XLSX : stem \in AtTheTop }
            \cup { STR_CONTAINER_DIR \o << "r", ".", "X", "L", "S", "X" >> }

PairWorkbooks ==
    { w \in UNION { [1..k -> { << "B" >>, << "A", "_", "_", "B" >> }] :
                        k \in 0..MaxSheets } :
        \A i, j \in 1..Len(w) : w[i] = w[j] => i = j }

\* an invocation the trigger has just started for `path`; `now` is the UTC
\* (year, month) of the host's clock when the invocation last looked at it
PairStarted(path, workbook) ==
    [ pc |-> "start", path |-> path, workbook |-> workbook, now |-> << 2026, 10 >>,
      loc |-> SplitNoLocals, sheets |-> << >>, idx |-> 0, outcome |-> "running" ]

\* the trigger fires for two different objects; the invocations differ in
\* nothing but their number, so each pair of objects is taken once
PairInit ==
    /\ \E two \in { P \in SUBSET PairPaths : Cardinality(P) = 2 },
          w1, w2 \in PairWorkbooks :
         LET p1 == CHOOSE p \in two : TRUE
             p2 == CHOOSE p \in two : p # p1
         IN  t_inv = [i \in PairIds |-> IF i = 1 THEN PairStarted(p1, w1)
                                                 ELSE PairStarted(p2, w2)]
    /\ t_writes = {}
    /\ t_copies = {}
    /\ t_gone = {}
    /\ t_arch = {}

\* no pair of invocations is running
PairIdle ==
    /\ t_inv = [i \in PairIds |-> [PairStarted(EmptyStr, << >>) EXCEPT !.pc = "done"]]
    /\ t_writes = {}
    /\ t_copies = {}
    /\ t_gone = {}
    /\ t_arch = {}

\* lines 182-202 of invocation i: the two skips, then stem, partition and
\* classification.  Each invocation reads datetime.utcnow() for itself (line
\* 99); the clock runs on between the two invocations and never back, so the
\* month this one reads is not before the month the other has read.
PairFilter(i) ==
    /\ t_inv[i].pc = "start"
    /\ LET blob_name == AfterFirstSlash(t_inv[i].path)
           filename == FileNameOf(t_inv[i].path)
           stem == StemOf(filename)
           ft == DetermineFileType(filename)
       IN  IF SplitInternalPath(blob_name) \/ SplitTempOrNotXlsx(filename)
           THEN t_inv' = [t_inv EXCEPT ![i].pc = "done", ![i].outcome = "returned"]
           ELSE \E now \in { << 2026, 10 >>, << 2026, 11 >> } :
                  /\ \A j \in PairIds :
                        now[1] * 12 + now[2] >= t_inv[j].now[1] * 12 + t_inv[j].now[2]
                  /\ t_inv' = [t_inv EXCEPT
                        ![i].pc = "read",
                        ![i].now = now,
                        ![i].loc = [ blob_name |-> blob_name, filename |-> filename,
                                     stem |-> stem, ym |-> ExtractYearMonth(stem, now),
                                     file_type |-> ft.file_type, target |-> ft.target ]]
    /\ UNCHANGED << t_writes, t_copies, t_gone, t_arch >>
    /\ UNCHANGED not_pair_vars

\* lines 205-227 of invocation i: the client, the workbook, the sheet selection
PairRead(i) ==
    /\ t_inv[i].pc = "read"
    /\ LET sel == SelectSheets(t_inv[i].workbook, t_inv[i].loc.target, ACCEPTED_SHEETS)
       IN  IF sel.why # "none"
           THEN t_inv' = [t_inv EXCEPT ![i].pc = "done", ![i].outcome = "returned",
                                       ![i].sheets = sel.sheets]
           ELSE t_inv' = [t_inv EXCEPT ![i].pc = "export", ![i].sheets = sel.sheets]
    /\ UNCHANGED << t_writes, t_copies, t_gone, t_arch >>
    /\ UNCHANGED not_pair_vars

\* one pass of the export loop of invocation i
PairExportSheet(i) ==
    /\ t_inv[i].pc = "export"
    /\ t_inv[i].idx < Len(t_inv[i].sheets)
    /\ LET loc == t_inv[i].loc
           sheet == t_inv[i].sheets[t_inv[i].idx + 1]
           name == OutBlobName(OutPrefix(loc.file_type, loc.ym), loc.stem, sheet)
       IN  t_writes' = t_writes \cup { << name, i >> }
    /\ t_inv' = [t_inv EXCEPT
            ![i].idx = @ + 1,
            ![i].pc = IF t_inv[i].idx + 1 = Len(t_inv[i].sheets) THEN "archive" ELSE "export"]
    /\ UNCHANGED << t_copies, t_gone, t_arch >>
    /\ UNCHANGED not_pair_vars

\* lines 270-275 of invocation i: the archive copy is started; it replaces
\* whatever the destination held and is pending or already complete; the
\* service refuses a copy from a source that is gone, and the call raises
PairStartCopy(i) ==
    /\ t_inv[i].pc = "archive"
    /\ IF t_inv[i].path \in t_gone
       THEN /\ t_inv' = [t_inv EXCEPT ![i].pc = "done", ![i].outcome = "raised"]
            /\ UNCHANGED << t_copies, t_arch >>
       ELSE /\ \E st \in { "pending", "success" } :
                 t_arch' = PutBlob(t_arch, ArchiveBlobName(t_inv[i].loc), st)
            /\ t_copies' = t_copies \cup { << ArchiveBlobName(t_inv[i].loc), i >> }
            /\ t_inv' = [t_inv EXCEPT ![i].pc = "wait"]
    /\ UNCHANGED << t_writes, t_gone >>
    /\ UNCHANGED not_pair_vars

\* the storage service works on a pending copy
PairStorageStep ==
    /\ \E a \in t_arch :
         /\ a[2] = "pending"
         /\ \E st \in { "success", "aborted", "failed" } :
              t_arch' = PutBlob(t_arch, a[1], st)
    /\ UNCHANGED << t_inv, t_writes, t_copies, t_gone >>
    /\ UNCHANGED not_pair_vars

\* one pass of the wait loop of invocation i: the deadline has passed and
\* the wait returns False, or the destination's status is read, whichever
\* copy it belongs to (copy_id is not looked at), and decides
PairWait(i) ==
    /\ t_inv[i].pc = "wait"
    /\ \E expired \in BOOLEAN :
         LET dst == CHOOSE a \in t_arch : a[1] = ArchiveBlobName(t_inv[i].loc)
             verdict == IF expired THEN WaitOnDeadline ELSE WaitVerdict(dst[2])
         IN  t_inv' = [t_inv EXCEPT
                 ![i].pc = IF verdict = "true" THEN "delete"
                           ELSE IF verdict = "false" THEN "done"
                           ELSE "wait",
                 ![i].outcome = IF verdict = "false" THEN "returned" ELSE @]
    /\ UNCHANGED << t_writes, t_copies, t_gone, t_arch >>
    /\ UNCHANGED not_pair_vars

\* container.delete_blob(blob_name) of invocation i; the call raises when
\* the object is no longer there
PairDelete(i) ==
    /\ t_inv[i].pc = "delete"
    /\ IF t_inv[i].path \in t_gone
       THEN /\ t_inv' = [t_inv EXCEPT ![i].pc = "done", ![i].outcome = "raised"]
            /\ UNCHANGED t_gone
       ELSE /\ t_inv' = [t_inv EXCEPT ![i].pc = "done", ![i].outcome = "returned"]
            /\ t_gone' = t_gone \cup { t_inv[i].path }
    /\ UNCHANGED << t_writes, t_copies, t_arch >>
    /\ UNCHANGED not_pair_vars

\* a call of the step invocation i is at raises: logged and re-raised
PairStepRaises(i) ==
    /\ t_inv[i].pc \in { "read", "export", "archive", "wait", "delete" }
    /\ t_inv' = [t_inv EXCEPT ![i].pc = "done", ![i].outcome = "raised"]
    /\ UNCHANGED << t_writes, t_copies, t_gone, t_arch >>
    /\ UNCHANGED not_pair_vars

\* the host runs the two invocations in any order, step by step
PairNext ==
    \/ \E i \in PairIds :
        \/ PairFilter(i)
        \/ PairRead(i)
        \/ PairExportSheet(i)
        \/ PairStartCopy(i)
        \/ PairWait(i)
        \/ PairDelete(i)
        \/ PairStepRaises(i)
    \/ PairStorageStep

(***************************************************************************)
(* Specifications: one per program                                         *)
(***************************************************************************)
InitGate == GateInit /\ DispIdle /\ SplitIdle /\ FnIdle /\ PairIdle

SpecGate == InitGate /\ [][GateNext]_vars

InitDispatch == DispInit /\ GateIdle /\ SplitIdle /\ FnIdle /\ PairIdle

SpecDispatch == InitDispatch /\ [][DispNext]_vars

InitSplit == SplitInit /\ GateIdle /\ DispIdle /\ FnIdle /\ PairIdle

SpecSplit == InitSplit /\ [][SplitNext]_vars

InitRerun == RerunInit /\ GateIdle /\ DispIdle /\ FnIdle /\ PairIdle

SpecRerun == InitRerun /\ [][RerunNext]_vars

InitFn == FnInit /\ GateIdle /\ DispIdle /\ SplitIdle /\ PairIdle

SpecFn == InitFn /\ [][FnNext]_vars

InitPair == PairInit /\ GateIdle /\ DispIdle /\ SplitIdle /\ FnIdle

SpecPair == InitPair /\ [][PairNext]_vars

\* the trigger fires twice for one object: two invocations with the same
\* path and the same workbook
InitTwin ==
    /\ \E p \in PairPaths, w \in PairWorkbooks :
         t_inv = [i \in PairIds |-> PairStarted(p, w)]
    /\ t_writes = {}
    /\ t_copies = {}
    /\ t_gone = {}
    /\ t_arch = {}
    /\ GateIdle /\ DispIdle /\ SplitIdle /\ FnIdle

SpecTwin == InitTwin /\ [][PairNext]_vars

\* one invocation that gets as far as the archive wait: a name that passes
\* the filter, a workbook of one sheet, a storage setting
InitWait ==
    /\ s_path \in RerunPaths
    /\ s_workbook \in { w \in SplitWorkbooks : Len(w) = 1 }
    /\ s_env = "serviceUri"
    /\ s_now \in SplitNows
    /\ s_accepted = ACCEPTED_SHEETS
    /\ s_run = 1
    /\ s_snap = SplitNoSnapshot
    /\ SplitLocalsInit
    /\ GateIdle /\ DispIdle /\ FnIdle /\ PairIdle

\* the handler's thread keeps running: a pass of the wait loop that can be
\* made is made, and so is the return once the loop test fails
SpecWait ==
    InitWait /\ [][SplitNext]_vars /\ WF_vars(SplitWaitPoll) /\ WF_vars(SplitWaitTimeout)

(***************************************************************************)
(* Properties of the gate                                                  *)
(***************************************************************************)
GateFailStatuses == { STR_LOAD_FAILED, STR_PARTIALLY_LOADED }

\* the most recent row any poll returned, NoRow if none did
GateLastSeen(h) ==
    LET P == { k \in 1..Len(h) : h[k].present }
    IN  IF P = {} THEN NoRow ELSE h[CHOOSE k \in P : \A j \in P : j <= k]

\* C2: a poll whose row has status LOADED is the gate's last poll: the gate
\* has returned 0 in that very step and no query follows it; the one other
\* way that step can end is by an exception of the poll's own cur.close().
C2_LoadedReturnsZeroOnThatPoll ==
    \A k \in 1..Len(g_hist) :
        (g_hist[k].present /\ g_hist[k].status = STR_LOADED) =>
            /\ k = Len(g_hist)
            /\ g_queries = k
            /\ g_pc = "done"
            /\ g_exit \in { 0, 1 }
            /\ (g_exit = 1) => (g_last_row # g_hist[k] \/ g_status # STR_LOADED)

\* a run that saw a non-terminal row first and LOADED on a later poll
C2_Witness ==
    /\ Len(g_hist) >= 2
    /\ g_hist[1].present
    /\ g_hist[1].status \notin (GateFailStatuses \cup { STR_LOADED })
    /\ g_hist[Len(g_hist)].present
    /\ g_hist[Len(g_hist)].status = STR_LOADED
    /\ g_exit = 0

\* C3: a poll whose row has status LOAD_FAILED or PARTIALLY_LOADED is the
\* gate's last poll: the gate has returned 2 in that very step and never polls
\* again; the one other way that step can end is by an exception of the
\* poll's own cur.close().
C3_FailedReturnsTwoOnThatPoll ==
    \A k \in 1..Len(g_hist) :
        (g_hist[k].present /\ g_hist[k].status \in GateFailStatuses) =>
            /\ k = Len(g_hist)
            /\ g_queries = k
            /\ g_pc = "done"
            /\ g_exit \in { 2, 1 }
            /\ (g_exit = 1) => (g_last_row # g_hist[k] \/ g_status # g_hist[k].status)

\* a run ended by PARTIALLY_LOADED on its second poll, with time left to poll
C3_Witness ==
    /\ Len(g_hist) = 2
    /\ g_hist[2].present
    /\ g_hist[2].status = STR_PARTIALLY_LOADED
    /\ g_exit = 2
    /\ g_elapsed + SleepSeconds < g_timeout

\* every poll so far returned no row, or a row whose status is, as written in
\* the catalog, none of the three terminal words
GateAllNonTerminalAsWritten ==
    \A k \in 1..Len(g_hist) :
        ~g_hist[k].present \/ g_hist[k].status \notin (GateFailStatuses \cup { STR_LOADED })

\* the same, comparing the upper-cased status as the code does
GateAllNonTerminalUpper ==
    \A k \in 1..Len(g_hist) :
        ~g_hist[k].present
        \/ StrUpper(g_hist[k].status) \notin (GateFailStatuses \cup { STR_LOADED })

\* C4 as stated: while no poll returned a row with status LOADED, LOAD_FAILED
\* or PARTIALLY_LOADED, the gate has not exited with code 0 or 2.
C4_AsStated == GateAllNonTerminalAsWritten => g_exit \notin { 0, 2 }

\* C4 amended: while every poll returned no row or a row whose upper-cased
\* status is none of the three terminal words, the gate has not exited with 0
\* or 2, consecutive polls start at least 10 seconds apart, and a return can
\* only be the timeout: code 3, with the elapsed time at or past the timeout,
\* reporting the last row seen (none if no poll returned one).
C4_NonTerminalPollsUntilTimeout ==
    GateAllNonTerminalUpper =>
        /\ g_exit \notin { 0, 2 }
        /\ \A k \in 2..Len(g_poll_at) : g_poll_at[k] - g_poll_at[k - 1] >= SleepSeconds
        /\ (g_pc = "done" /\ g_exit # 1) =>
               /\ g_exit = 3
               /\ g_elapsed >= g_timeout
               /\ g_reported = GateLastSeen(g_hist)

\* a timeout after three polls, the second of which returned a row and the
\* third none
C4_Witness ==
    /\ g_exit = 3
    /\ Len(g_hist) = 3
    /\ GateAllNonTerminalUpper
    /\ g_hist[2].present
    /\ ~g_hist[3].present
    /\ g_reported = g_hist[2]

\* C5: at most one connection is ever opened; it is open while the loop runs
\* and closed (once) whenever the run has ended after opening it, whether by
\* return 0, 2, 3 or by an exception of a query.
C5_ConnectionClosedOnEveryExit ==
    /\ g_opens <= 1
    /\ (g_pc \in { "loop", "sleep" }) => (g_opens = 1 /\ g_conn = "open" /\ g_closes = 0)
    /\ (g_pc = "done" /\ g_opens = 1) => (g_conn = "closed" /\ g_closes = 1)
    /\ (g_pc = "done" /\ g_exit \in { 0, 2, 3 }) => g_opens = 1

\* a query raised on the second pass of the loop
C5_Witness ==
    /\ g_pc = "done"
    /\ g_exit = 1
    /\ g_opens = 1
    /\ Len(g_hist) = 1
    /\ g_conn = "closed"

(***************************************************************************)
(* Properties of the dispatcher                                            *)
(***************************************************************************)
\* p is a prefix of s, q is a suffix of s, stated position by position
IsPrefixOf(p, s) == Len(p) <= Len(s) /\ \A i \in 1..Len(p) : s[i] = p[i]

IsSuffixOf(q, s) ==
    Len(q) <= Len(s) /\ \A i \in 1..Len(q) : s[Len(s) - Len(q) + i] = q[i]

DispConfigMissing ==
    d_cfg.owner = EmptyStr \/ d_cfg.repo = EmptyStr \/ d_cfg.pat = EmptyStr

\* a configured filter that the notification's subject does not match
DispFilterMismatch ==
    \/ (d_cfg.begins # EmptyStr /\ ~IsPrefixOf(d_cfg.begins, d_event.subject))
    \/ (d_cfg.ends # EmptyStr /\ ~IsSuffixOf(d_cfg.ends, d_event.subject))

\* C6: with owner, repo or token missing no request is ever sent, the handler
\* gets no further than the validation, and when it has ended it has ended by
\* raising the configuration error, whatever the subject and the filters.
C6_MissingConfigRaisesBeforeAnyRequest ==
    DispConfigMissing =>
        /\ d_posts = << >>
        /\ d_pc \in { "start", "done" }
        /\ (d_pc = "done") => (d_outcome = "raised" /\ d_error \in { "owner_repo", "pat" })

\* an invocation that ended on the missing token alone, its subject passing
\* the filters
C6_Witness ==
    /\ d_pc = "done"
    /\ d_cfg.owner # EmptyStr
    /\ d_cfg.repo # EmptyStr
    /\ d_cfg.pat = EmptyStr
    /\ ~DispFilterMismatch
    /\ d_error = "pat"

\* C7: with the configuration present, a notification whose subject fails a
\* configured prefix or suffix filter never causes a request, and the handler,
\* once ended, has returned normally with no error.
C7_FilteredOutIsSilentNoOp ==
    (~DispConfigMissing /\ DispFilterMismatch) =>
        /\ d_posts = << >>
        /\ (d_pc = "done") => (d_outcome = "returned" /\ d_error = "none")

\* an invocation ended by the suffix filter alone (the prefix filter is unset)
C7_Witness ==
    /\ d_pc = "done"
    /\ ~DispConfigMissing
    /\ d_cfg.begins = EmptyStr
    /\ d_cfg.ends # EmptyStr
    /\ ~IsSuffixOf(d_cfg.ends, d_event.subject)
    /\ d_outcome = "returned"

\* C8: an invocation that sent the POST and has ended returned normally if and
\* only if the answer was a response with status 204; any other status, the
\* timeout and any other transport error raised.
C8_OnlyStatus204Succeeds ==
    (d_pc = "done" /\ d_posts # << >>) =>
        /\ d_outcome \in { "returned", "raised" }
        /\ (d_outcome = "returned") <=> (d_result = [kind |-> "response", status |-> 204])
        /\ (d_result.kind \in { "timeout", "error" }) => d_outcome = "raised"

\* an invocation answered 200 that raised
C8_Witness ==
    /\ d_pc = "done"
    /\ d_posts # << >>
    /\ d_result = [kind |-> "response", status |-> 200]
    /\ d_outcome = "raised"

\* C9: no invocation sends more than one request, and an invocation that has
\* ended with the configuration present and the subject passing the filters
\* has sent exactly one, whatever the answer.
C9_ExactlyOnePost ==
    /\ Len(d_posts) <= 1
    /\ (d_pc = "done" /\ ~DispConfigMissing /\ ~DispFilterMismatch) => Len(d_posts) = 1

\* an invocation with both filters set and matching that sent its one request
\* and failed on the timeout
C9_Witness ==
    /\ d_pc = "done"
    /\ d_cfg.begins # EmptyStr
    /\ d_cfg.ends # EmptyStr
    /\ ~DispFilterMismatch
    /\ Len(d_posts) = 1
    /\ d_result.kind = "timeout"

(***************************************************************************)
(* Properties of the splitter                                              *)
(***************************************************************************)
\* C1: the source object is deleted, or about to be, only after a poll of the
\* archive destination observed copy status "success" and the wait returned
\* true; when the wait returned false (the copy reported aborted or failed,
\* or 60 seconds passed without success) the source is still there and no
\* delete was issued.
C1_DeleteOnlyAfterObservedSuccess ==
    /\ (s_source = "deleted" \/ s_deletes > 0 \/ s_pc = "delete") =>
           (s_seen = "success" /\ s_wait = "true" /\ s_copies = 1)
    /\ (s_wait = "false") => (s_source = "present" /\ s_deletes = 0 /\ s_pc = "done")
    /\ s_deletes <= 1

\* the source deleted at the end of a wait that took time
C1_Witness ==
    /\ s_source = "deleted"
    /\ s_clock > 0
    /\ s_seen = "success"

\* the object path inside the container lies under a prefix the function writes to
SplitUnderOwnPrefix ==
    LET blob_name == AfterFirstSlash(s_path)
    IN  \/ IsPrefixOf(STR_DSP_SUMMARY_DIR, blob_name)
        \/ IsPrefixOf(STR_DRIVER_ROUTES_DIR, blob_name)
        \/ IsPrefixOf(STR_ARCHIVE_DIR, blob_name)

\* the file name is a lock/temp name or does not end with .xlsx, whatever the case
SplitTempOrForeignName ==
    LET filename == FileNameOf(s_path)
    IN  \/ IsPrefixOf(STR_TEMP_PREFIX, filename)
        \/ ~IsSuffixOf(STR_XLSX, StrLower(filename))

\* the invocation did nothing: no workbook read, no upload, no copy, no delete
SplitNoEffect ==
    /\ ~s_read
    /\ s_uploads = << >>
    /\ s_store = {}
    /\ s_copies = 0
    /\ s_deletes = 0
    /\ s_source = "present"

\* C10: an event whose object path lies under dsp_summary/, driver_routes/ or
\* _archive/, or whose file name starts with "~$" or does not end with .xlsx
\* (case-insensitive), is ignored: the handler gets no further than the filter
\* and has no effect.
C10_OwnPrefixesAndForeignNamesIgnored ==
    (SplitUnderOwnPrefix \/ SplitTempOrForeignName) =>
        (SplitNoEffect /\ s_pc \in { "start", "done" })

\* the invocation returned without a write, a copy or a delete
SplitAbortedClean ==
    /\ s_pc = "done"
    /\ s_outcome = "returned"
    /\ s_uploads = << >>
    /\ s_store = {}
    /\ s_copies = 0
    /\ s_deletes = 0
    /\ s_source = "present"

\* the sequence has no repeated member
SplitNoRepeats(q) == \A i, j \in 1..Len(q) : q[i] = q[j] => i = j

\* q keeps the order its members have in w
SplitInOrderOf(q, w) ==
    \A i, j \in 1..Len(q) :
        i < j => \E a, b \in 1..Len(w) : a < b /\ w[a] = q[i] /\ w[b] = q[j]

\* C11: once the workbook is read, the sheets chosen for export are: for a
\* category with a target sheet, exactly that sheet when the workbook has a
\* sheet of exactly that name, and otherwise the invocation returns without
\* an output write, an archive copy or a delete; for a category without a
\* target sheet, all sheets of the workbook, or those of them the allow-list
\* names when one is configured; when no sheet is left, the invocation
\* returns without an output write, an archive copy or a delete.
C11_SheetSelection ==
    s_read =>
        LET target == s_loc.target
            has_target == \E i \in 1..Len(s_workbook) : s_workbook[i] = target
            kept == IF s_accepted.configured
                    THEN { n \in s_accepted.names : \E i \in 1..Len(s_workbook) : s_workbook[i] = n }
                    ELSE { s_workbook[i] : i \in 1..Len(s_workbook) }
        IN  IF target # EmptyStr
            THEN IF has_target
                 THEN s_sheets = << target >> /\ s_skip = "none"
                 ELSE SplitAbortedClean
            ELSE /\ { s_sheets[i] : i \in 1..Len(s_sheets) } = kept
                 /\ SplitNoRepeats(s_sheets)
                 /\ SplitInOrderOf(s_sheets, s_workbook)
                 /\ IF kept = {} THEN SplitAbortedClean ELSE s_skip = "none"

\* of a two-sheet route workbook only the sheet named Routes was exported
C11_Witness ==
    /\ s_loc.target = STR_ROUTES_SHEET
    /\ Len(s_workbook) = 2
    /\ s_sheets = << STR_ROUTES_SHEET >>
    /\ s_idx = 1
    /\ s_pc = "archive"

\* {category}/{year}/{month}/{stem}__{sanitized sheet name}.csv
SplitDocumentedOutputName(sheet) ==
    s_loc.file_type \o << "/" >> \o s_loc.ym[1] \o << "/" >> \o s_loc.ym[2] \o << "/" >>
        \o s_loc.stem \o << "_", "_" >> \o Safe(sheet) \o STR_CSV

\* C14: when the export loop has finished for n selected sheets, the container
\* holds exactly n output objects, one per sheet, the object of a sheet named
\* {category}/{year}/{month}/{stem}__{sanitized sheet name}.csv and holding
\* that sheet; no two different selected sheets were written to one object.
C14_OneObjectPerSheet ==
    SplitExportFinished =>
        /\ Cardinality(s_store) = Len(s_sheets)
        /\ \A i \in 1..Len(s_sheets) :
               << SplitDocumentedOutputName(s_sheets[i]), s_sheets[i] >> \in s_store
        /\ \A i, j \in 1..Len(s_uploads) : s_uploads[i] = s_uploads[j] => i = j

\* C15: when a second delivery of the same source (same name, same workbook)
\* finishes its export after an earlier delivery had finished its own, the
\* container holds the same output objects with the same contents as the
\* earlier delivery left: each object was overwritten in place and no
\* further object was created.
C15_ExportIdempotent ==
    (s_run > 1 /\ s_snap.exported /\ SplitExportFinished) => (s_store = s_snap.store)

\* the handler got past its two filters with a file name of no known pattern
SplitMissUnknownPattern ==
    /\ s_pc # "start"
    /\ s_skip \notin { "internal_path", "temp_or_not_xlsx" }
    /\ UnknownPattern(s_loc.filename)

\* the workbook was read and has no sheet of the category's target name
SplitMissTargetSheet ==
    /\ s_read
    /\ s_loc.target # EmptyStr
    /\ \A i \in 1..Len(s_workbook) : s_workbook[i] # s_loc.target

\* the workbook was read and, with no target sheet, no sheet is selected
SplitMissEmptySelection ==
    /\ s_read
    /\ s_loc.target = EmptyStr
    /\ \A i \in 1..Len(s_workbook) :
           s_accepted.configured /\ s_workbook[i] \notin s_accepted.names

\* no output object written, no archive copy started, no source delete
SplitNoSideEffect ==
    /\ s_uploads = << >>
    /\ s_store = {}
    /\ s_copies = 0
    /\ s_deletes = 0
    /\ s_source = "present"

\* C18 as stated: on every classification miss (a file name of no known
\* pattern, a target sheet the workbook lacks, an empty selection) the
\* invocation has no side effect and, once the miss is found, has returned.
C18_AsStated ==
    /\ SplitMissUnknownPattern => SplitNoSideEffect
    /\ (SplitMissTargetSheet \/ SplitMissEmptySelection) => SplitAbortedClean

\* C18 amended: when the workbook lacks the category's target sheet, or the
\* selection is empty, the invocation has returned without raising and
\* without a write, a copy or a delete; a file name of no known pattern is
\* not a miss: it is handled as dsp_summary with no target sheet, and once
\* its workbook is read with a sheet selected the handler goes on to export.
C18_MissesExceptUnknownPatternExitClean ==
    /\ (SplitMissTargetSheet \/ SplitMissEmptySelection) => SplitAbortedClean
    /\ \/ /\ s_loc.file_type = STR_DSP_SUMMARY
          /\ s_loc.target = EmptyStr
          /\ (s_read /\ ~SplitMissEmptySelection) => s_skip = "none"
       \/ ~SplitMissUnknownPattern

\* a route workbook with sheets, none of them named Routes, was read and left
C18_Witness ==
    /\ SplitMissTargetSheet
    /\ s_workbook # << >>
    /\ s_skip = "no_target"
    /\ s_pc = "done"

\* C19: the steps of one invocation happen at most once each and in the order
\* read, write every selected sheet, start the archive copy, confirm it,
\* delete the source: the read happens before any write; each write adds the
\* next selected sheet's object, before the copy is started; the copy is
\* started once, after every selected sheet's object was written; the wait
\* ends once, after the copy was started; the delete is issued once, after
\* the wait confirmed the copy.
C19_StepOrder ==
    [][ /\ (s_read' # s_read) =>
               (~s_read /\ s_uploads = << >> /\ s_copies = 0 /\ s_deletes = 0)
        /\ (s_uploads' # s_uploads) =>
               /\ s_read /\ s_copies = 0 /\ s_wait = "none" /\ s_deletes = 0
               /\ Len(s_uploads) < Len(s_sheets)
               /\ s_uploads' = Append(s_uploads,
                       SplitDocumentedOutputName(s_sheets[Len(s_uploads) + 1]))
        /\ (s_copies' # s_copies) =>
               /\ s_copies = 0 /\ s_copies' = 1
               /\ s_read /\ s_wait = "none" /\ s_deletes = 0
               /\ s_sheets # << >>
               /\ Len(s_uploads) = Len(s_sheets)
               /\ \A i \in 1..Len(s_sheets) :
                      s_uploads[i] = SplitDocumentedOutputName(s_sheets[i])
        /\ (s_wait' # s_wait) => (s_wait = "none" /\ s_copies = 1 /\ s_deletes = 0)
        /\ (s_deletes' # s_deletes \/ s_source' # s_source) =>
               /\ s_deletes = 0 /\ s_deletes' = 1
               /\ s_source = "present"
               /\ s_wait = "true" /\ s_copies = 1
      ]_vars

\* two sheets written, the copy started and confirmed, the source deleted
C19_Witness ==
    /\ Len(s_uploads) = 2
    /\ s_copies = 1
    /\ s_wait = "true"
    /\ s_deletes = 1
    /\ s_source = "deleted"

\* C20: when a step raised (creating the storage client without a storage
\* setting, reading the workbook, exporting a sheet, starting the copy,
\* polling its status, deleting the source) the invocation has ended with
\* the exception propagated, not with a normal return, and has not deleted
\* the source; without a storage setting the handler never reads the workbook.
C20_RaisePropagatesSourceKept ==
    /\ (s_failed_at # "none") =>
           /\ s_pc = "done"
           /\ s_outcome = "raised"
           /\ s_source = "present"
           /\ s_deletes = 0
    /\ (s_env = "none") =>
           /\ ~s_read
           /\ s_pc \in { "start", "connect", "done" }
           /\ (s_pc = "done" /\ s_skip = "none") =>
                  (s_outcome = "raised" /\ s_failed_at = "connect")

\* the status poll raised after the sheets were written and the copy started
C20_Witness ==
    /\ s_failed_at = "wait"
    /\ s_clock > 0
    /\ s_uploads # << >>
    /\ s_copies = 1
    /\ s_outcome = "raised"

(***************************************************************************)
(* Properties of the splitter's helpers                                    *)
(***************************************************************************)
\* t occurs in s
FnHasSubstring(t, s) ==
    \E i \in 0..(Len(s) - Len(t)) : \A k \in 1..Len(t) : s[i + k] = t[k]

\* the name, in lower case, starts with routes_ and contains dsk4
FnRoutesName(name) ==
    /\ IsPrefixOf(STR_ROUTES_PREFIX, StrLower(name))
    /\ FnHasSubstring(STR_DSK4, StrLower(name))

\* the name, in lower case, contains dayofopsplan
FnSummaryName(name) == FnHasSubstring(STR_DAYOFOPSPLAN, StrLower(name))

FnRoutesResult == [file_type |-> STR_DRIVER_ROUTES, target |-> STR_ROUTES_SHEET]

FnSummaryResult == [file_type |-> STR_DSP_SUMMARY, target |-> EmptyStr]

\* C12 as stated: every file name that, whatever its case, starts with
\* routes_ and contains dsk4 is classified driver_routes with target sheet
\* Routes, and every file name that contains dayofopsplan is classified
\* dsp_summary with no target sheet.
C12_AsStated ==
    (f_kind = "classify" /\ f_pc = "done") =>
        /\ FnRoutesName(f_in) => f_out = FnRoutesResult
        /\ FnSummaryName(f_in) => f_out = FnSummaryResult

\* C12 amended: every file name that, whatever its case, starts with routes_
\* and contains dsk4 is classified driver_routes with target sheet Routes,
\* also when it contains dayofopsplan; every file name that contains
\* dayofopsplan and is not such a route name is classified dsp_summary with
\* no target sheet.
C12_RoutesBeforeSummary ==
    (f_kind = "classify" /\ f_pc = "done") =>
        /\ FnRoutesName(f_in) => f_out = FnRoutesResult
        /\ (FnSummaryName(f_in) /\ ~FnRoutesName(f_in)) => f_out = FnSummaryResult

\* a route name written in capitals that also names the day-of-ops plan
C12_Witness ==
    /\ f_kind = "classify"
    /\ f_pc = "done"
    /\ FnRoutesName(f_in)
    /\ FnSummaryName(f_in)
    /\ ~IsPrefixOf(STR_ROUTES_PREFIX, f_in)
    /\ f_out = FnRoutesResult

\* the year is a leap year of the Gregorian calendar
FnLeapYear(y) == (y % 4 = 0 /\ y % 100 # 0) \/ y % 400 = 0

\* the number of days of month m of year y
FnDaysInMonth(y, m) ==
    IF m \in { 4, 6, 9, 11 } THEN 30
    ELSE IF m = 2 THEN (IF FnLeapYear(y) THEN 29 ELSE 28)
    ELSE 31

\* the ten characters YYYY-MM-DD name a day of the calendar
FnRealDate(date) ==
    LET y == DigitsValue(SubSeq(date, 1, 4))
        m == DigitsValue(SubSeq(date, 6, 7))
        d == DigitsValue(SubSeq(date, 9, 10))
    IN  /\ y >= 1
        /\ m \in 1..12
        /\ d >= 1
        /\ d <= FnDaysInMonth(y, m)

\* C13: when the first part of the stem shaped DDDD-DD-DD names a real
\* calendar date, the result is its year and its two-digit month; when the
\* stem has no such part, or that part names no real calendar date (month or
\* day out of range), the result is the current UTC year and the current
\* month padded to two digits.
C13_PartitionFromRealDateElseNow ==
    (f_kind = "extract" /\ f_pc = "done") =>
        LET P == DateMatchPositions(f_in)
            i == CHOOSE p \in P : \A q \in P : p <= q
        IN  IF P # {} /\ FnRealDate(SubSeq(f_in, i, i + 9))
            THEN f_out = << SubSeq(f_in, i, i + 3), SubSeq(f_in, i + 5, i + 6) >>
            ELSE f_out = << NatToStr(f_now[1]), Pad2(f_now[2]) >>

\* the characters a sanitized name may hold: the letters (the characters that
\* have a case, and the two ordinal indicators), the digits and the other
\* numerals (superscripts and fractions), the hyphen and the underscore
FnSafeChars ==
    { c \in Alphabet : ToUpperChar(c) # << c >> \/ ToLowerChar(c) # c }
        \cup { "ª", "º" }
        \cup { Digits[i] : i \in 1..Len(Digits) }
        \cup { "²", "³", "¹", "¼", "½", "¾" }
        \cup { "-", "_" }

\* C16: the sanitized sheet name has the length of the name, each of its
\* characters is alphanumeric (a letter or a numeral), a hyphen or an
\* underscore, and sanitizing it again returns it unchanged.
C16_SafeCharsLengthIdempotent ==
    (f_kind = "safe" /\ f_pc = "done") =>
        /\ Len(f_out) = Len(f_in)
        /\ \A i \in 1..Len(f_out) : f_out[i] \in FnSafeChars
        /\ Safe(f_out) = f_out

\* a name with a dot, a multiplication sign and an accented letter was
\* sanitized: the letter is kept, the other two are replaced
C16_Witness ==
    /\ f_kind = "safe"
    /\ f_pc = "done"
    /\ \E i, j, k \in 1..Len(f_in) :
         /\ f_in[i] = "." /\ f_in[j] = "×" /\ f_in[k] = "é"
         /\ f_out[i] = "_" /\ f_out[j] = "_" /\ f_out[k] = "é"

(***************************************************************************)
(* Properties of two invocations side by side                              *)
(***************************************************************************)
\* the two invocations have written to a common output path
PairSharedOutput == \E w1, w2 \in t_writes : w1[1] = w2[1] /\ w1[2] # w2[2]

\* the two invocations have started a copy to a common archive path
PairSharedArchive == \E c1, c2 \in t_copies : c1[1] = c2[1] /\ c1[2] # c2[2]

\* C17 as stated: two invocations for two different source objects never
\* write to the same output path and never copy to the same archive path.
C17_AsStated ==
    (t_inv[1].path # t_inv[2].path) => (~PairSharedOutput /\ ~PairSharedArchive)

\* the file name the handler works with: the last path segment, cleaned
PairFileName(i) == FileNameOf(t_inv[i].path)

\* the stems differ and neither is the other continued by an underscore:
\* no "{stem}__{sheet}" of the one can be a "{stem}__{sheet}" of the other
PairStemsApart ==
    LET s1 == StemOf(PairFileName(1))
        s2 == StemOf(PairFileName(2))
    IN  /\ s1 # s2
        /\ ~IsPrefixOf(s1 \o << "_" >>, s2)
        /\ ~IsPrefixOf(s2 \o << "_" >>, s1)

\* the two invocations derived the same year and month
PairSamePartition == t_inv[1].loc.ym = t_inv[2].loc.ym

\* C17 amended: two invocations for two different source objects, under any
\* interleaving, copy to the same archive path exactly when the file names
\* of the objects are equal and both derive the same year and month (from
\* the date in the name, or, for a name without a valid date, from the UTC
\* month each invocation reads); and they write to the same output path
\* only when they derive the same category, year and month and the stems
\* are equal or one is the other continued by an underscore.
C17_DistinctFileNamesKeepApart ==
    (t_inv[1].path # t_inv[2].path) =>
        /\ \A c1, c2 \in t_copies :
               (c1[2] = 1 /\ c2[2] = 2) =>
                   ((c1[1] = c2[1]) <=>
                        (PairFileName(1) = PairFileName(2) /\ PairSamePartition))
        /\ PairSharedOutput =>
               /\ ~PairStemsApart
               /\ PairSamePartition
               /\ t_inv[1].loc.file_type = t_inv[2].loc.file_type

\* two objects with one file name in different folders, handled either side
\* of a month boundary: both invocations wrote their sheets and started
\* their copies, to two archive paths
C17_Witness ==
    /\ t_inv[1].path # t_inv[2].path
    /\ PairFileName(1) = PairFileName(2)
    /\ ~PairSamePartition
    /\ \E w1, w2 \in t_writes : w1[2] = 1 /\ w2[2] = 2
    /\ \E c1, c2 \in t_copies : c1[2] = 1 /\ c2[2] = 2 /\ c1[1] # c2[1]

\* C21: the archive wait always ends. It returns true at the first poll that
\* observes status success; it returns false at the first poll that observes
\* aborted or failed, and no poll follows a verdict; while every poll
\* observes a pending status, each pass of the loop moves the clock on by at
\* least the one-second sleep, no poll starts once 60 seconds have passed,
\* and the wait then returns false; so an invocation in the wait leaves it.
C21_WaitTerminates ==
    /\ [][ /\ (s_wait = "none" /\ s_wait' = "true") =>
                  /\ s_pc = "wait"
                  /\ s_clock < COPY_TIMEOUT_S
                  /\ s_seen \in { "none", "pending" }
                  /\ s_archive.status = "success"
                  /\ s_seen' = "success"
           /\ (s_wait = "none" /\ s_wait' = "false") =>
                  /\ s_pc = "wait"
                  /\ s_seen \in { "none", "pending" }
                  /\ \/ /\ s_clock < COPY_TIMEOUT_S
                        /\ s_archive.status \in { "aborted", "failed" }
                        /\ s_seen' = s_archive.status
                     \/ /\ s_clock >= COPY_TIMEOUT_S
                        /\ s_seen' = s_seen
           /\ (s_wait # "none") => (s_wait' = s_wait /\ s_seen' = s_seen)
           /\ (s_pc = "wait" /\ s_seen' # s_seen) =>
                  (s_clock < COPY_TIMEOUT_S /\ s_seen' = s_archive.status)
           /\ (s_pc = "wait" /\ s_pc' = "wait" /\ s_archive' = s_archive) =>
                  /\ s_clock < COPY_TIMEOUT_S
                  /\ s_archive.status = "pending"
                  /\ s_clock' >= s_clock + POLL_SLEEP_S
                  /\ s_clock' <= s_clock + MaxPollLatency + POLL_SLEEP_S
         ]_vars
    /\ (s_pc = "wait") ~> (s_pc # "wait")

\* the copy stayed pending on every poll and the wait returned false after
\* the deadline
C21_Witness ==
    /\ s_wait = "false"
    /\ s_seen = "pending"
    /\ s_archive.status = "pending"
    /\ s_clock >= COPY_TIMEOUT_S
    /\ s_source = "present"

\* C22: two invocations for the same source object, interleaved in any way:
\* whenever the source object has been deleted, the archive object it was
\* copied to holds a successfully completed copy.
C22_DeletedSourceIsArchived ==
    \A p \in t_gone :
        \E c \in t_copies :
            /\ t_inv[c[2]].path = p
            /\ << c[1], "success" >> \in t_arch

====
